---- MODULE Spec2Model ----
(***************************************************************************)
(* NexaShield antivirus scan engine: the ScanWorker thread                 *)
(* (modules/tabs/antivirus_logic.py) driven by the AntivirusWidget         *)
(* (modules/tabs/antivirus.py): manual, drag-and-drop and scheduled        *)
(* starts, pause/resume/stop, the queued signals from the worker thread to *)
(* the GUI thread, and the scheduler poll.                                 *)
(*                                                                         *)
(* Threads.  All widget handlers run on the GUI thread, one at a time.     *)
(* Each ScanWorker runs on its own QThread; its signals are delivered to   *)
(* the widget through the GUI thread's event queue (queued connections),   *)
(* in emission order.  QThread.isRunning() is true from start() until      *)
(* run() has returned, which is after the last statement of run().         *)
(***************************************************************************)
EXTENDS Integers, Sequences, FiniteSets, TLC

(* ---------------------------------------------------------------- bounds *)
\* number of ScanWorker objects one widget creates in a behaviour
MaxRuns == 2
\* number of calendar days the wall clock covers
MaxDay == 1
\* number of scheduler ticks in the trigger minute of one day
MaxTicks == 2
\* number of seconds the quarantine timestamps cover
MaxStamp == 2
\* number of connections that update the definitions
MaxUpdaters == 2
\* number of times each of them runs the update
MaxUpdates == 2
\* number of segments a probe file name is built of
MaxSegments == 3

(* ------------------------------------------------------- the file system *)
\* the directories a scan can be pointed at
Dirs == {"Documents", "Downloads", "/"}

\* the paths a regular file can be at, outside the quarantine directory
OrigPaths ==
    {"Documents/eicar.com", "Documents/invoice.pdf.exe", "Documents/notes.txt",
     "Downloads/invoice.pdf.exe"}

\* a path that is neither a file nor a directory
MissingPath == "Missing"

\* os.path.dirname(path) of a regular file
Dirname(path) ==
    CASE path \in {"Documents/eicar.com", "Documents/invoice.pdf.exe",
                   "Documents/notes.txt"} -> "Documents"
      [] path = "Downloads/invoice.pdf.exe" -> "Downloads"
      [] OTHER -> MissingPath

\* os.path.basename(path) of a regular file
Basename(path) ==
    CASE path = "Documents/eicar.com" -> "eicar.com"
      [] path \in {"Documents/invoice.pdf.exe", "Downloads/invoice.pdf.exe"} -> "invoice.pdf.exe"
      [] OTHER -> "notes.txt"

\* the characters of a file name
Chars(name) ==
    CASE name = "eicar.com" -> <<"e", "i", "c", "a", "r", ".", "c", "o", "m">>
      [] name = "invoice.pdf.exe" ->
            <<"i", "n", "v", "o", "i", "c", "e", ".", "p", "d", "f", ".", "e", "x", "e">>
      [] OTHER -> <<"n", "o", "t", "e", "s", ".", "t", "x", "t">>

\* quarantine_threat: os.path.join(quarantine_dir, f"{timestamp}_{filename}.quarantined")
QuarantinePath(timestamp, file_path) ==
    "quarantine/" \o ToString(timestamp) \o "_" \o Basename(file_path) \o ".quarantined"

\* the paths inside the quarantine directory
QuarantinePaths == {QuarantinePath(t, p) : t \in 1..MaxStamp, p \in OrigPaths}

AllPaths == OrigPaths \cup QuarantinePaths

\* no file at a path
Absent == [exists |-> FALSE, hash |-> "", size |-> 0, readable |-> FALSE]

\* what the files of the modelled volume hold: the SHA-256 of the content and
\* the size, in megabytes
Content(path) ==
    CASE path = "Documents/eicar.com" -> [hash |-> "275a02", size |-> 25]
      [] path = "Documents/invoice.pdf.exe" -> [hash |-> "9f86d0", size |-> 50]
      [] path = "Downloads/invoice.pdf.exe" -> [hash |-> "4b2277", size |-> 50]
      [] OTHER -> [hash |-> "2c26b4", size |-> 50]

\* a volume with the files present, of which those in locked cannot be opened
Volume(present, locked) ==
    [p \in AllPaths |->
        IF p \in present
        THEN [exists |-> TRUE, hash |-> Content(p).hash, size |-> Content(p).size,
              readable |-> p \notin locked]
        ELSE Absent]

(* ------------------------------------------------------------- variables *)
VARIABLES
    scan_thread,    \* AntivirusWidget.scan_thread: 0 for None, else a worker id
    manual_stop,    \* AntivirusWidget.manual_stop
    progress_bar,   \* QProgressBar: [value, maximum] (minimum is always 0)
    pause_btn,      \* [enabled, text]
    stop_btn,       \* [enabled]
    results_table,  \* the rows of results_table: the threats shown
    history,        \* the scan_history table, oldest first
    message_box,    \* title of the QMessageBox the last GUI handler showed, "" for none
    stdout,         \* the line the last GUI handler printed, "" for none
    schedule_file,  \* scan_schedule.json: [exists, enabled, type, time, last_run]
    now,            \* the wall clock: [date, minute]
    workers,        \* the ScanWorker objects, by id
    queue,          \* signals emitted by worker threads, not yet delivered
    emitted,        \* per worker: every signal it has emitted, in order
    gui_pc,         \* where the GUI thread is: "idle", or inside ScanWorker.stop
    disk,           \* the file system: what each path holds
    signatures,     \* the signatures table
    probe,          \* a file handed to the detector on its own: [path, file]
    finding,        \* what the detector returned for the probe
    quarantine_log, \* quarantine_log.json: the entries, oldest first
    quarantine_table, \* the rows of quarantine_table: the entry each row holds
    qclock,         \* the second of the last quarantine timestamp taken
    sched_log,      \* history: the scheduler ticks of the day in the trigger minute
    updaters,       \* the UpdateDefinitionsWorker threads and their connections, by id
    db_lock,        \* the connection that holds the database's write lock, 0 for none
    observer        \* the watchdog Observer of toggle_realtime: running or not

vars == <<scan_thread, manual_stop, progress_bar, pause_btn, stop_btn, results_table,
          history, message_box, stdout, schedule_file, now, workers, queue, emitted, gui_pc,
          disk, signatures, probe, finding, quarantine_log, quarantine_table, qclock,
          sched_log, updaters, db_lock, observer>>

\* the definitions update and the real-time watch
side_vars == <<updaters, db_lock, observer>>

\* the files on disk and what is kept of them
file_vars == <<disk, signatures, probe, finding, quarantine_log, quarantine_table, qclock>>

scan_vars == <<scan_thread, manual_stop, progress_bar, pause_btn, stop_btn,
               results_table, history>>

\* what a GUI handler shows and prints
output_vars == <<message_box, stdout>>

widget_vars == <<scan_vars, output_vars>>

\* a handler that shows no box and prints nothing
Silent == message_box' = "" /\ stdout' = ""

(* ---------------------------------------------- the file system, as read *)
\* os.path.isfile
Files == {p \in OrigPaths : disk[p].exists}

\* the order in which os.walk yields the files below a directory
Listing(path) ==
    CASE path = "Documents" ->
            <<"Documents/eicar.com", "Documents/invoice.pdf.exe", "Documents/notes.txt">>
      [] path = "Downloads" -> <<"Downloads/invoice.pdf.exe">>
      [] path = "/" ->
            <<"Documents/eicar.com", "Documents/invoice.pdf.exe", "Documents/notes.txt",
              "Downloads/invoice.pdf.exe">>
      [] OTHER -> <<>>

\* os.walk(path): the files below a directory, in walk order
Walk(path) == SelectSeq(Listing(path), LAMBDA p : disk[p].exists)

\* what the detector gets of a file: the characters of its base name, the
\* hash of its content, whether open() succeeds, and its size (0 when
\* os.path.getsize raises)
FileInfo(path) ==
    [name |-> Chars(Basename(path)), hash |-> disk[path].hash,
     readable |-> disk[path].exists /\ disk[path].readable,
     size |-> IF disk[path].exists THEN disk[path].size ELSE 0]

\* shutil.disk_usage(path).used of the scanned volume, in megabytes; 0
\* stands for the call raising, which leaves total_bytes unchanged
DiskUsedChoices == {0, 50}

(* ------------------------------------------------------- signature store *)
None == [none |-> TRUE]

\* the detector has not been run on the probe
Pending == [none |-> TRUE, pending |-> TRUE]

\* a row of the signatures table: the four columns and SQLite's rowid
Row(rowid, sig) ==
    [rowid |-> rowid, hash |-> sig.hash, name |-> sig.name, type |-> sig.type,
     severity |-> sig.severity]

\* init_db: the EICAR seed
eicar == [hash |-> "275a02", name |-> "EICAR-Test-File", type |-> "Virus", severity |-> "High"]

\* the signatures table after DatabaseManager.init_db on a new database
init_db == {Row(1, eicar)}

\* UpdateDefinitionsWorker.run: the signatures an update brings
new_sigs ==
    <<[hash |-> "44d886", name |-> "EICAR-Test-File-MD5", type |-> "Virus", severity |-> "High"],
      [hash |-> "5e8848", name |-> "WannaCry", type |-> "Ransomware", severity |-> "Critical"],
      [hash |-> "e3b0c4", name |-> "Empty-Test", type |-> "Suspicious", severity |-> "Low"]>>

\* the signatures table after init_db and one definitions update
updated_db == init_db \cup {Row(i + 1, new_sigs[i]) : i \in 1..Len(new_sigs)}

\* DatabaseManager.check_signature
check_signature(file_hash) ==
    IF \E s \in signatures : s.hash = file_hash
    THEN LET s == CHOOSE s \in signatures : s.hash = file_hash
         IN  [none |-> FALSE, name |-> s.name, type |-> s.type, severity |-> s.severity]
    ELSE None

\* the connections that run a definitions update
UpdaterIds == 1..MaxUpdaters

\* an UpdateDefinitionsWorker that is not running; pending holds the rows its
\* connection has written and not committed
NoUpdater == [pc |-> "idle", i |-> 1, pending |-> {}, added |-> 0, runs |-> 0, result |-> ""]

\* what a connection reads: the committed rows and its own uncommitted ones
Visible(u) == signatures \cup updaters[u].pending

\* the rowid SQLite gives the next row of a table
NextRowid(table) ==
    IF table = {} THEN 1 ELSE (CHOOSE n \in {r.rowid : r \in table} :
                                   \A r \in table : r.rowid <= n) + 1

\* variant: the hash column is no key, INSERT adds the row whatever the table holds
insert_no_key(table, sig) == [raised |-> FALSE, row |-> {Row(NextRowid(table), sig)}]

\* "INSERT INTO signatures ... VALUES (?, ?, ?, ?)" on a table whose hash
\* column is the PRIMARY KEY: sqlite3.IntegrityError when the hash is there
insert(table, sig) ==
    IF \E r \in table : r.hash = sig.hash
    THEN [raised |-> TRUE, row |-> {}]
    ELSE [raised |-> FALSE, row |-> {Row(NextRowid(table), sig)}]

\* "INSERT OR IGNORE INTO signatures VALUES (?, ?, ?, ?)"
insert_or_ignore(table, sig) ==
    IF \E r \in table : r.hash = sig.hash THEN {} ELSE {Row(NextRowid(table), sig)}

(* -------------------------------------------------------------- detector *)
\* str.lower, one character
lower(c) ==
    CASE c = "E" -> "e" [] c = "X" -> "x" [] c = "B" -> "b" [] c = "A" -> "a"
      [] c = "T" -> "t" [] c = "V" -> "v" [] c = "S" -> "s" [] c = "I" -> "i"
      [] OTHER -> c

\* str.lower
Lower(name) == [i \in 1..Len(name) |-> lower(name[i])]

\* str.count of one character
count(name, c) == Cardinality({i \in 1..Len(name) : name[i] = c})

\* str.endswith of one suffix
endswith(name, suffix) ==
    /\ Len(name) >= Len(suffix)
    /\ SubSeq(name, Len(name) - Len(suffix) + 1, Len(name)) = suffix

\* the suffixes of the double-extension check: ('.exe', '.bat', '.vbs')
Executable ==
    {<<".", "e", "x", "e">>, <<".", "b", "a", "t">>, <<".", "v", "b", "s">>}

\* the pieces the names of the probe files are built of
Segments ==
    {<<"i">>, <<".">>, <<"e", "x", "e">>, <<".", "p", "d", "f">>, <<".", "e", "x", "e">>,
     <<".", "E", "X", "E">>, <<".", "b", "a", "t">>, <<".", "v", "b", "s">>}

\* the names of at most n segments
RECURSIVE NamesUpTo(_)
NamesUpTo(n) ==
    IF n = 0 THEN {<<>>}
    ELSE NamesUpTo(n - 1) \cup {name \o seg : name \in NamesUpTo(n - 1), seg \in Segments}

\* the file names of the model: those of the probes and those on the volume
FileNames == NamesUpTo(MaxSegments) \cup {Chars(Basename(p)) : p \in OrigPaths}

\* scan_file: the double-extension check on the lower-cased base name
double_extension(filename) ==
    count(filename, ".") > 1 /\ \E suffix \in Executable : endswith(filename, suffix)

\* the file names the check flags, computed once for all calls
Flagged == {name \in FileNames : double_extension(Lower(name))}

\* a finding of scan_file
Finding(file_path, name, type, severity, method, time) ==
    [none |-> FALSE, path |-> file_path, name |-> name, type |-> type,
     severity |-> severity, method |-> method, time |-> time]

\* variant: the heuristic runs before the signature lookup
scan_file_heuristic_first(file_path, file, time) ==
    LET sig_match == check_signature(file.hash)
        filename == Lower(file.name)
    IN  IF ~file.readable THEN None
        ELSE IF count(filename, ".") > 1 /\ \E suffix \in Executable : endswith(filename, suffix)
        THEN Finding(file_path, "Suspicious Double Extension", "Suspicious", "Medium",
                     "Heuristic", time)
        ELSE IF ~sig_match.none
        THEN Finding(file_path, sig_match.name, sig_match.type, sig_match.severity,
                     "Signature", time)
        ELSE None

\* variant: one '.' is enough for the double-extension check
scan_file_single_dot(file_path, file, time) ==
    LET sig_match == check_signature(file.hash)
        filename == Lower(file.name)
    IN  IF ~file.readable THEN None
        ELSE IF ~sig_match.none
        THEN Finding(file_path, sig_match.name, sig_match.type, sig_match.severity,
                     "Signature", time)
        ELSE IF count(filename, ".") >= 1 /\ \E suffix \in Executable : endswith(filename, suffix)
        THEN Finding(file_path, "Suspicious Double Extension", "Suspicious", "Medium",
                     "Heuristic", time)
        ELSE None

\* variant: only the hashing is inside the try block, the name is checked
\* whether or not the file could be read
scan_file_name_despite_error(file_path, file, time) ==
    LET sig_match == IF file.readable THEN check_signature(file.hash) ELSE None
        filename == Lower(file.name)
    IN  IF ~sig_match.none
        THEN Finding(file_path, sig_match.name, sig_match.type, sig_match.severity,
                     "Signature", time)
        ELSE IF count(filename, ".") > 1 /\ \E suffix \in Executable : endswith(filename, suffix)
        THEN Finding(file_path, "Suspicious Double Extension", "Suspicious", "Medium",
                     "Heuristic", time)
        ELSE None

\* the characters of the directory part of a probe's path
DirChars(file_path) ==
    IF file_path = "my.files/probe" THEN <<"m", "y", ".", "f", "i", "l", "e", "s", "/">>
    ELSE <<"D", "o", "c", "u", "m", "e", "n", "t", "s", "/">>

\* variant: the name check runs on the path as given, directories included
scan_file_whole_path(file_path, file, time) ==
    LET sig_match == check_signature(file.hash)
        filename == Lower(DirChars(file_path) \o file.name)
    IN  IF ~file.readable THEN None
        ELSE IF ~sig_match.none
        THEN Finding(file_path, sig_match.name, sig_match.type, sig_match.severity,
                     "Signature", time)
        ELSE IF count(filename, ".") > 1 /\ \E suffix \in Executable : endswith(filename, suffix)
        THEN Finding(file_path, "Suspicious Double Extension", "Suspicious", "Medium",
                     "Heuristic", time)
        ELSE None

\* ScanWorker.scan_file on a file with the given name, content hash and
\* readability, at the given time: the signature lookup, then the
\* double-extension heuristic; a file that cannot be opened or read raises
\* inside the try block and yields None
scan_file_on(file_path, file, time) ==
    LET sig_match == check_signature(file.hash)
    IN  IF ~file.readable THEN None
        ELSE IF ~sig_match.none
        THEN Finding(file_path, sig_match.name, sig_match.type, sig_match.severity,
                     "Signature", time)
        ELSE IF file.name \in Flagged
        THEN Finding(file_path, "Suspicious Double Extension", "Suspicious", "Medium",
                     "Heuristic", time)
        ELSE None

\* ScanWorker.scan_file
scan_file(file_path) == scan_file_on(file_path, FileInfo(file_path), now.time)

WorkerIds == 1..MaxRuns

\* a ScanWorker that has not been constructed; Collected is one that was
\* destroyed.  late is history: the worker left the per-file pause check of
\* its current file while is_paused was set
NoWorker ==
    [pc |-> "new", paths |-> <<>>, scan_type |-> "", is_running |-> FALSE,
     is_paused |-> FALSE, woken |-> FALSE, files |-> <<>>, idx |-> 1,
     total_files |-> 0, scanned_count |-> 0, total_bytes |-> 0, scanned_bytes |-> 0,
     threats |-> 0, late |-> FALSE]

Collected == [NoWorker EXCEPT !.pc = "collected"]

\* ScanWorker.__init__ followed by QThread.start()
NewWorker(paths, scan_type) ==
    [NoWorker EXCEPT !.pc = "started", !.paths = paths, !.scan_type = scan_type,
                     !.is_running = TRUE]

\* QThread.isRunning()
isRunning(w) == w.pc \notin {"new", "dead", "collected"}

(* ------------------------------------------------------------ signals *)
\* one emission of a pyqtSignal of worker src; the fields a signal does not
\* carry are left at "" or 0.  run is history: the scan type of the worker at
\* a scan_finished emission, which is no argument of the signal
Signal(src, sig, value, path, threat, threats) ==
    [src |-> src, sig |-> sig, value |-> value, path |-> path, run |-> "",
     name |-> IF threat.none THEN "" ELSE threat.name,
     type |-> IF threat.none THEN "" ELSE threat.type,
     severity |-> IF threat.none THEN "" ELSE threat.severity,
     method |-> IF threat.none THEN "" ELSE threat.method,
     threats |-> threats]

\* progress_updated.emit(progress, file_path, eta_str)
ProgressUpdated(src, progress, file_path) == Signal(src, "progress_updated", progress, file_path, None, 0)

\* threat_found.emit(threat)
ThreatFound(src, threat) == Signal(src, "threat_found", 0, threat.path, threat, 0)

\* variant: the enumerated total is reported instead of the files scanned
FinishedArgsTotalFiles(w) == <<w.total_files, w.threats>>

\* scan_finished.emit(self.scanned_count, self.threats)
FinishedArgs(w) == <<w.scanned_count, w.threats>>

ScanFinishedSignal(src, w) ==
    [Signal(src, "scan_finished", FinishedArgs(w)[1], "", None, FinishedArgs(w)[2])
        EXCEPT !.run = w.scan_type]

(* ------------------------------------------------- ScanWorker, sequential *)
RECURSIVE Concat(_)
Concat(seqs) == IF seqs = <<>> THEN <<>> ELSE Head(seqs) \o Concat(Tail(seqs))

\* the targets of one root path: the file itself, the walk of a directory,
\* nothing for a path that is neither
Targets(path) ==
    IF path \in Files THEN <<path>> ELSE IF path \in Dirs THEN Walk(path) ELSE <<>>

\* run(): the files of all root paths, in order; the first pass of a
\* Quick/Custom/File scan stores them in file_list
Enumerate(paths) == Concat([i \in 1..Len(paths) |-> Targets(paths[i])])

\* variant: no cap
NoCap(progress) == progress

\* process_file: "if progress >= 100: progress = 99"
Cap(progress) == IF progress >= 100 THEN 99 ELSE progress

(* ---------------------------------------------------------- Python floats *)
\* a natural number of any size: its digits to the base 2^BaseBits, the most
\* significant first, none for zero
BaseBits == 13

Strip(X) ==
    LET nz == {i \in 1..Len(X) : X[i] # 0}
    IN  IF nz = {} THEN <<>> ELSE SubSeq(X, CHOOSE i \in nz : \A j \in nz : i <= j, Len(X))

\* X * k + carry, for k and carry below 2^BaseBits
RECURSIVE MulAdd(_, _, _)
MulAdd(X, k, carry) ==
    IF X = <<>> THEN (IF carry = 0 THEN <<>> ELSE <<carry>>)
    ELSE LET p == X[Len(X)] * k + carry
         IN  MulAdd(SubSeq(X, 1, Len(X) - 1), k, p \div 2^BaseBits) \o <<p % 2^BaseBits>>

\* quotient and remainder of (r * (2^BaseBits)^Len(X) + X) by k, for r < k <= 2^17
RECURSIVE DivRem(_, _, _)
DivRem(X, k, r) ==
    IF X = <<>> THEN [q |-> <<>>, r |-> r]
    ELSE LET t == r * 2^BaseBits + Head(X)
             rest == DivRem(Tail(X), k, t % k)
         IN  [q |-> <<t \div k>> \o rest.q, r |-> rest.r]

\* X without its last s binary digits, and whether one of them was 1
DropBits(X, s) ==
    LET m == s \div BaseBits
        d == DivRem(SubSeq(X, 1, Len(X) - m), 2^(s % BaseBits), 0)
    IN  [q |-> Strip(d.q),
         inexact |-> d.r # 0 \/ \E i \in 1..Len(X) : i > Len(X) - m /\ X[i] # 0]

RECURSIVE NatOf(_)
NatOf(X) == IF X = <<>> THEN 0 ELSE NatOf(SubSeq(X, 1, Len(X) - 1)) * 2^BaseBits + X[Len(X)]

\* a Python float (IEEE-754 binary64): sig * 2^exp with sig of at most 53
\* binary digits.
\* Round is round-half-to-even of X * 2^exp (plus a positive rest below
\* 2^exp when inexact) to 53 significant binary digits; n is the number of
\* binary digits of X.
Round(X, exp, inexact) ==
    LET n == IF X = <<>> THEN 0
             ELSE BaseBits * (Len(X) - 1)
                  + (CHOOSE k \in 1..BaseBits : 2^(k - 1) <= X[1] /\ X[1] < 2^k)
        a == DropBits(X, n - 54)
        b == DivRem(a.q, 2, 0)
        up == b.r = 1 /\ (a.inexact \/ inexact \/ b.q[Len(b.q)] % 2 = 1)
    IN  IF n <= 53 THEN [sig |-> X, exp |-> exp]
        ELSE [sig |-> IF up THEN MulAdd(b.q, 1, 1) ELSE b.q, exp |-> exp + (n - 53)]

\* int.__truediv__(a, b): the quotient to 65 binary places, then rounded
truediv(a, b) ==
    LET d == DivRem(<<a % b, 0, 0, 0, 0, 0>>, b, 0)
    IN  Round(Strip(<<a \div b>> \o Tail(d.q)), -5 * BaseBits, d.r # 0)

\* float.__mul__(x, k) for an int k below 2^BaseBits
mul(x, k) == Round(MulAdd(x.sig, k, 0), x.exp, FALSE)

\* int(x): truncation
int(x) ==
    IF x.exp >= 0 THEN NatOf(x.sig) * 2^x.exp ELSE NatOf(DropBits(x.sig, -x.exp).q)

\* process_file: int((scanned / total) * 100), for the counter values of a
\* run on any modelled volume: at most every file, each of the largest size
percentage ==
    LET sizes == {Content(path).size : path \in OrigPaths} \cup DiskUsedChoices
        totals == DiskUsedChoices \cup {Cardinality(OrigPaths)}
        MaxCounted == Cardinality(OrigPaths) * (CHOOSE m \in sizes : \A n \in sizes : n <= m)
        MaxTotal == CHOOSE m \in totals : \A n \in totals : n <= m
    IN  [scanned \in 0..MaxCounted, total \in 1..MaxTotal |->
            int(mul(truediv(scanned, total), 100))]

\* process_file: the progress value, byte based when total_bytes > 0, file
\* count based when total_files > 0, else 0
Progress(w) ==
    Cap(IF w.total_bytes > 0 THEN percentage[w.scanned_bytes, w.total_bytes]
        ELSE IF w.total_files > 0 THEN percentage[w.scanned_count, w.total_files]
        ELSE 0)

\* variant: a detected file is counted as a threat and not as scanned
CountOnlyClean(w, file_path) ==
    LET threat == scan_file(file_path)
    IN  [w EXCEPT !.scanned_count = IF threat.none THEN @ + 1 ELSE @,
                  !.scanned_bytes = @ + FileInfo(file_path).size,
                  !.threats = IF threat.none THEN @ ELSE @ + 1]

\* process_file from "self.scanned_count += 1" to its end: the counters
Count(w, file_path) ==
    LET threat == scan_file(file_path)
    IN  [w EXCEPT !.scanned_count = @ + 1,
                  !.scanned_bytes = @ + FileInfo(file_path).size,
                  !.threats = IF threat.none THEN @ ELSE @ + 1]

\* process_file from "self.scanned_count += 1" to its end: the signals
ScanSignals(src, w, file_path) ==
    LET threat == scan_file(file_path)
    IN  <<ProgressUpdated(src, Progress(Count(w, file_path)), file_path)>>
        \o (IF threat.none THEN <<>> ELSE <<ThreatFound(src, threat)>>)

\* run(): the scan loop from file i to its end and the scan_finished signal,
\* with no pause and no stop: the signals
RECURSIVE LoopSignals(_, _, _)
LoopSignals(id, w, i) ==
    IF i > Len(w.files) THEN <<ScanFinishedSignal(id, w)>>
    ELSE ScanSignals(id, w, w.files[i]) \o LoopSignals(id, Count(w, w.files[i]), i + 1)

\* run(): the scan loop from file i to its end, with no pause and no stop:
\* the counters
RECURSIVE LoopCount(_, _)
LoopCount(w, i) ==
    IF i > Len(w.files) THEN [w EXCEPT !.idx = i]
    ELSE LoopCount(Count(w, w.files[i]), i + 1)

(* -------------------------------------------------- ScanWorker, the flags *)
\* QWaitCondition.wakeAll(): releases the thread blocked in condition.wait
wakeAll(w) == [w EXCEPT !.woken = (w.pc = "pf_wait")]

\* variant: pause() flips the flag
pause_toggle(w) == [w EXCEPT !.is_paused = ~@]

\* ScanWorker.pause
pause(w) == [w EXCEPT !.is_paused = TRUE]

\* ScanWorker.resume
resume(w) == wakeAll([w EXCEPT !.is_paused = FALSE, !.late = FALSE])

\* ScanWorker.stop, its first statement: self.is_running = False
stop_flag(w) == [w EXCEPT !.is_running = FALSE]

\* variant: stop() only sets is_running and wakes nobody
stop_locked_no_wake(w) == w

\* ScanWorker.stop, the locked section: a paused worker is un-paused and woken
stop_locked(w) ==
    IF w.is_paused THEN wakeAll([w EXCEPT !.is_paused = FALSE, !.late = FALSE]) ELSE w

\* ScanWorker.stop as a whole
stop(w) == stop_locked(stop_flag(w))

(* ---------------------------------------------- ScanWorker, the thread *)
Emit(id, sigs) ==
    /\ queue' = queue \o sigs
    /\ emitted' = [emitted EXCEPT ![id] = @ \o sigs]

\* run() up to the scan loop.  Full: the "Calculating drive usage..." signal
\* and total_bytes from disk_usage; otherwise the first pass that builds
\* file_list and sets total_files.  files is what the loop iterates: file_list,
\* or for a Full scan the stream of the walk.
RunBegin(id) ==
    LET w == workers[id]
    IN  /\ w.pc = "started"
        /\ IF w.scan_type = "Full"
           THEN \E used \in DiskUsedChoices :
                    /\ workers' = [workers EXCEPT ![id] =
                            [w EXCEPT !.pc = "loop", !.total_bytes = used,
                                      !.files = Enumerate(w.paths)]]
                    /\ Emit(id, <<ProgressUpdated(id, 0, "Calculating drive usage...")>>)
           ELSE /\ workers' = [workers EXCEPT ![id] =
                        [w EXCEPT !.pc = "loop", !.files = Enumerate(w.paths),
                                  !.total_files = Len(Enumerate(w.paths))]]
                /\ UNCHANGED <<queue, emitted>>
        /\ UNCHANGED <<widget_vars, schedule_file, now, file_vars, sched_log, side_vars, gui_pc>>

\* the head of the scan loop: the next file, or the end of the list, or
\* "if not self.is_running: break"
LoopHead(id) ==
    LET w == workers[id]
    IN  /\ w.pc = "loop"
        /\ workers' = [workers EXCEPT ![id].pc =
                IF w.idx > Len(w.files) \/ ~w.is_running THEN "emit" ELSE "pf_lock"]
        /\ UNCHANGED <<widget_vars, schedule_file, now, file_vars, sched_log, side_vars, gui_pc, queue, emitted>>

\* process_file: mutex.lock(); if self.is_paused: condition.wait(mutex)
\* (which releases the mutex and blocks); else mutex.unlock()
PfLock(id) ==
    LET w == workers[id]
    IN  /\ w.pc = "pf_lock"
        /\ workers' = [workers EXCEPT ![id] =
                IF w.is_paused
                THEN [w EXCEPT !.pc = "pf_wait", !.woken = FALSE]
                ELSE [w EXCEPT !.pc = "pf_check"]]
        /\ UNCHANGED <<widget_vars, schedule_file, now, file_vars, sched_log, side_vars, gui_pc, queue, emitted>>

\* variant: the woken worker returns from process_file without the file
AfterWaitSkip(w) == [w EXCEPT !.pc = "loop", !.idx = @ + 1, !.woken = FALSE]

\* after the wait: the woken worker goes on to the is_running check
AfterWait(w) == [w EXCEPT !.pc = "pf_check", !.woken = FALSE, !.late = w.is_paused]

\* process_file: condition.wait returns after a wakeAll; mutex.unlock()
PfWake(id) ==
    LET w == workers[id]
    IN  /\ w.pc = "pf_wait"
        /\ w.woken
        /\ workers' = [workers EXCEPT ![id] = AfterWait(w)]
        /\ UNCHANGED <<widget_vars, schedule_file, now, file_vars, sched_log, side_vars, gui_pc, queue, emitted>>

\* variant: process_file without the is_running test
PfCheckNoRunningTest(id) ==
    LET w == workers[id]
    IN  /\ w.pc = "pf_check"
        /\ workers' = [workers EXCEPT ![id].pc = "pf_scan"]
        /\ UNCHANGED <<widget_vars, schedule_file, now, file_vars, sched_log, side_vars, gui_pc, queue, emitted>>

\* process_file: "if not self.is_running: return"
PfCheck(id) ==
    LET w == workers[id]
    IN  /\ w.pc = "pf_check"
        /\ workers' = [workers EXCEPT ![id] =
                IF ~w.is_running
                THEN [w EXCEPT !.pc = "loop", !.idx = @ + 1, !.late = FALSE]
                ELSE [w EXCEPT !.pc = "pf_scan"]]
        /\ UNCHANGED <<widget_vars, schedule_file, now, file_vars, sched_log, side_vars, gui_pc, queue, emitted>>

\* process_file from "self.scanned_count += 1" to its end
PfScan(id) ==
    LET w == workers[id]
        file_path == w.files[w.idx]
    IN  /\ w.pc = "pf_scan"
        /\ workers' = [workers EXCEPT ![id] =
                [Count(w, file_path) EXCEPT !.pc = "loop", !.idx = @ + 1,
                                            !.late = FALSE]]
        /\ Emit(id, ScanSignals(id, w, file_path))
        /\ UNCHANGED <<widget_vars, schedule_file, now, file_vars, sched_log, side_vars, gui_pc>>

\* run(): self.scan_finished.emit(self.scanned_count, self.threats)
EmitFinished(id) ==
    LET w == workers[id]
    IN  /\ w.pc = "emit"
        /\ workers' = [workers EXCEPT ![id].pc = "returning"]
        /\ Emit(id, <<ScanFinishedSignal(id, w)>>)
        /\ UNCHANGED <<widget_vars, schedule_file, now, file_vars, sched_log, side_vars, gui_pc>>

\* run() returns and the QThread finishes: isRunning() becomes false
ThreadExit(id) ==
    LET w == workers[id]
    IN  /\ w.pc = "returning"
        /\ workers' = [workers EXCEPT ![id].pc = "dead"]
        /\ UNCHANGED <<widget_vars, schedule_file, now, file_vars, sched_log, side_vars, gui_pc, queue, emitted>>

WorkerStep(id) ==
    \/ RunBegin(id)
    \/ LoopHead(id)
    \/ PfLock(id)
    \/ PfWake(id)
    \/ PfCheck(id)
    \/ PfScan(id)
    \/ EmitFinished(id)
    \/ ThreadExit(id)

(* ------------------------------------------------------- the progress bar *)
\* QProgressBar.setValue: a value outside [0, maximum] is ignored unless the
\* bar is indeterminate (maximum 0)
setValue(bar, value) ==
    IF (value > bar.maximum \/ value < 0) /\ bar.maximum # 0 THEN bar
    ELSE [bar EXCEPT !.value = value]

\* QProgressBar.setRange(0, maximum): a value outside the new range resets
\* the bar (value -1)
setRange(bar, maximum) ==
    IF maximum = bar.maximum THEN bar
    ELSE [value |-> IF bar.value > maximum THEN -1 ELSE bar.value, maximum |-> maximum]

(* -------------------------------------------------- AntivirusWidget, scans *)
\* start_scan: the root paths of a scan type
ScanPaths(scan_type, custom_path) ==
    CASE scan_type = "Quick" -> <<"Documents", "Downloads">>
      [] scan_type = "Full" -> <<"/">>
      [] scan_type \in {"Custom", "File"} /\ custom_path # "" -> <<custom_path>>
      [] OTHER -> <<>>

\* the id the next ScanWorker object gets
NextId == Cardinality({id \in WorkerIds : workers[id].pc # "new"}) + 1

\* variant: no guard
NeverInProgress == FALSE

\* start_scan, stop_scan, check_schedule:
\* "if self.scan_thread and self.scan_thread.isRunning()"
ScanInProgress == scan_thread # 0 /\ isRunning(workers[scan_thread])

\* variant: the table, the bar and manual_stop are reset before the guard
StartRejectedAfterReset ==
    /\ message_box' = "Scan in Progress"
    /\ stdout' = ""
    /\ results_table' = <<>>
    /\ progress_bar' = setValue(progress_bar, 0)
    /\ manual_stop' = FALSE
    /\ UNCHANGED <<scan_thread, pause_btn, stop_btn, history, workers, emitted>>

\* start_scan, rejected: the warning box, and return
StartRejected ==
    /\ message_box' = "Scan in Progress"
    /\ stdout' = ""
    /\ UNCHANGED <<scan_thread, manual_stop, progress_bar, pause_btn, stop_btn,
                   results_table, history, workers, emitted>>

\* "self.scan_thread = ScanWorker(...)" drops the last reference to the old
\* worker object; a finished one is destroyed
Dropped(id) == id = scan_thread /\ workers[id].pc = "dead"

\* start_scan, accepted: the table and the bar are reset, the buttons enabled,
\* and a new ScanWorker is created and started
StartAccepted(scan_type, custom_path) ==
    /\ NextId <= MaxRuns
    /\ results_table' = <<>>
    /\ progress_bar' = setValue(progress_bar, 0)
    /\ pause_btn' = [enabled |-> TRUE, text |-> "Pause"]
    /\ stop_btn' = [enabled |-> TRUE]
    /\ manual_stop' = FALSE
    /\ scan_thread' = NextId
    /\ workers' = [id \in WorkerIds |->
            IF id = NextId THEN NewWorker(ScanPaths(scan_type, custom_path), scan_type)
            ELSE IF Dropped(id) THEN Collected ELSE workers[id]]
    /\ emitted' = [id \in WorkerIds |-> IF Dropped(id) THEN <<>> ELSE emitted[id]]
    /\ Silent
    /\ UNCHANGED history

\* AntivirusWidget.start_scan
start_scan(scan_type, custom_path) ==
    IF ScanInProgress THEN StartRejected ELSE StartAccepted(scan_type, custom_path)

\* the Quick and Full buttons, select_custom_scan and select_file_scan
ManualStart ==
    /\ gui_pc = "idle"
    /\ \/ \E scan_type \in {"Quick", "Full"} : start_scan(scan_type, "")
       \/ \E path \in Dirs \ {"/"} : start_scan("Custom", path)
       \/ \E path \in Files : start_scan("File", path)
    /\ UNCHANGED <<schedule_file, now, file_vars, sched_log, side_vars, queue, gui_pc>>

\* dropEvent: a dropped directory is scanned, a dropped file's directory is
DropEvent ==
    /\ gui_pc = "idle"
    /\ \E path \in (Dirs \ {"/"}) \cup Files :
          start_scan("Custom", IF path \in Dirs THEN path ELSE Dirname(path))
    /\ UNCHANGED <<schedule_file, now, file_vars, sched_log, side_vars, queue, gui_pc>>

\* toggle_pause; the click reaches it only while pause_btn is enabled
toggle_pause ==
    /\ gui_pc = "idle"
    /\ pause_btn.enabled
    /\ IF scan_thread = 0
       THEN UNCHANGED <<workers, pause_btn, progress_bar>>
       ELSE IF pause_btn.text = "Pause"
       THEN /\ workers' = [workers EXCEPT ![scan_thread] = pause(@)]
            /\ pause_btn' = [pause_btn EXCEPT !.text = "Resume"]
            /\ progress_bar' = IF progress_bar.maximum = 0
                               THEN setValue(setRange(progress_bar, 100), 0)
                               ELSE progress_bar
       ELSE /\ workers' = [workers EXCEPT ![scan_thread] = resume(@)]
            /\ pause_btn' = [pause_btn EXCEPT !.text = "Pause"]
            /\ progress_bar' = IF workers[scan_thread].scan_type = "Full"
                               THEN setRange(progress_bar, 0)
                               ELSE progress_bar
    /\ Silent
    /\ UNCHANGED <<scan_thread, manual_stop, stop_btn, results_table, history,
                   schedule_file, now, file_vars, sched_log, side_vars, queue, emitted, gui_pc>>

\* stop_scan up to the first statement of ScanWorker.stop (is_running = False);
\* the click reaches it only while stop_btn is enabled
stop_scan ==
    /\ gui_pc = "idle"
    /\ stop_btn.enabled
    /\ IF ScanInProgress
       THEN /\ manual_stop' = TRUE
            /\ workers' = [workers EXCEPT ![scan_thread] = stop_flag(@)]
            /\ gui_pc' = "stop"
       ELSE UNCHANGED <<manual_stop, workers, gui_pc>>
    /\ Silent
    /\ UNCHANGED <<scan_thread, progress_bar, pause_btn, stop_btn, results_table, history,
                   schedule_file, now, file_vars, sched_log, side_vars, queue, emitted>>

\* stop_scan from the locked section of ScanWorker.stop to its end
stop_scan_locked ==
    /\ gui_pc = "stop"
    /\ workers' = [workers EXCEPT ![scan_thread] = stop_locked(@)]
    /\ pause_btn' = [enabled |-> FALSE, text |-> "Pause"]
    /\ stop_btn' = [enabled |-> FALSE]
    /\ progress_bar' = setValue(setRange(progress_bar, 100), 0)
    /\ gui_pc' = "idle"
    /\ UNCHANGED <<scan_thread, manual_stop, results_table, history, output_vars,
                   schedule_file, now, file_vars, sched_log, side_vars, queue, emitted>>

(* ------------------------------------------ AntivirusWidget, signal slots *)
\* the queued signal the GUI thread delivers next
Delivering(sig) == gui_pc = "idle" /\ queue # <<>> /\ Head(queue).sig = sig

\* update_progress(value, current_file, time_left)
update_progress ==
    /\ Delivering("progress_updated")
    /\ progress_bar' = setValue(setRange(progress_bar, 100), Head(queue).value)
    /\ queue' = Tail(queue)
    /\ Silent
    /\ UNCHANGED <<scan_thread, manual_stop, pause_btn, stop_btn, results_table, history,
                   schedule_file, now, file_vars, sched_log, side_vars, workers, emitted, gui_pc>>

\* add_threat_row(threat)
add_threat_row ==
    /\ Delivering("threat_found")
    /\ results_table' = Append(results_table, Head(queue).path)
    /\ queue' = Tail(queue)
    /\ Silent
    /\ UNCHANGED <<scan_thread, manual_stop, progress_bar, pause_btn, stop_btn, history,
                   schedule_file, now, file_vars, sched_log, side_vars, workers, emitted, gui_pc>>

\* scan_finished(total, threats)
scan_finished ==
    /\ Delivering("scan_finished")
    /\ message_box' = IF manual_stop THEN "Scan Stopped"
                      ELSE IF Head(queue).threats > 0 THEN "Threats Detected" ELSE "Clean"
    /\ progress_bar' = setRange(setValue(progress_bar, 100), 100)
    /\ pause_btn' = [pause_btn EXCEPT !.enabled = FALSE]
    /\ stop_btn' = [enabled |-> FALSE]
    /\ history' = Append(history, <<workers[scan_thread].scan_type,
                                    Head(queue).value, Head(queue).threats>>)
    /\ queue' = Tail(queue)
    /\ stdout' = ""
    /\ UNCHANGED <<scan_thread, manual_stop, results_table, schedule_file, now, file_vars, sched_log, side_vars,
                   workers, emitted, gui_pc>>

\* DatabaseManager.get_scan_history: "SELECT * FROM scan_history ORDER BY id DESC"
get_scan_history == [i \in 1..Len(history) |-> history[Len(history) + 1 - i]]

\* clear_history, confirmed: "self.db.clear_scan_history()" names a method
\* DatabaseManager does not have; the AttributeError ends the handler before
\* load_history and the "Success" box, with its traceback printed
ClearConfirmed ==
    /\ gui_pc = "idle"
    /\ message_box' = "Confirm Clear"
    /\ stdout' = "AttributeError"
    /\ UNCHANGED <<scan_vars, schedule_file, now, workers, queue, emitted, gui_pc,
                   file_vars, sched_log, side_vars>>

\* clear_history, declined
ClearDeclined ==
    /\ gui_pc = "idle"
    /\ message_box' = "Confirm Clear"
    /\ stdout' = ""
    /\ UNCHANGED <<scan_vars, schedule_file, now, workers, queue, emitted, gui_pc,
                   file_vars, sched_log, side_vars>>

\* AntivirusWidget.clear_history
clear_history ==
    \/ ClearConfirmed
    \/ ClearDeclined

(* ------------------------------------------------------------ scheduler *)
\* the times of day the user schedules
SchedTimes == {[hour |-> 9, minute |-> 0]}

\* no scan_schedule.json
NoSchedule ==
    [exists |-> FALSE, enabled |-> FALSE, type |-> "Quick",
     time |-> [hour |-> 9, minute |-> 0], last_run |-> 0]

\* variant: save_schedule writes last_run as ''
save_schedule_fresh ==
    /\ gui_pc = "idle"
    /\ \E enabled \in BOOLEAN, type \in {"Quick", "Full"}, time \in SchedTimes :
          schedule_file' = [exists |-> TRUE, enabled |-> enabled, type |-> type, time |-> time,
                            last_run |-> 0]
    /\ message_box' = "Schedule"
    /\ stdout' = ""
    /\ UNCHANGED <<scan_vars, now, workers, queue, emitted, gui_pc, file_vars, sched_log, side_vars>>

\* save_schedule: the widgets' values are written; last_run is taken from the
\* old file when there is one, else it is '' (0 here)
save_schedule ==
    /\ gui_pc = "idle"
    /\ \E enabled \in BOOLEAN, type \in {"Quick", "Full"}, time \in SchedTimes :
          schedule_file' = [exists |-> TRUE, enabled |-> enabled, type |-> type, time |-> time,
                            last_run |-> IF schedule_file.exists THEN schedule_file.last_run ELSE 0]
    /\ message_box' = "Schedule"
    /\ stdout' = ""
    /\ UNCHANGED <<scan_vars, now, workers, queue, emitted, gui_pc, file_vars, sched_log, side_vars>>

\* check_schedule: "current_time.hour() == sched_time.hour() and
\* current_time.minute() == sched_time.minute()", where sched_time is a QTime
\* and current_time is datetime.datetime.now().time(), a datetime.time.  Its
\* hour is an int attribute, so the call current_time.hour() raises TypeError
\* before anything is compared.
TimeMatches(current_time, sched_time) == [raised |-> TRUE, value |-> FALSE]

\* check_schedule from the time comparison on, given the outcome of the
\* comparison, of "last_run_str != today_str" and of the running check
Tick(matches, not_run_today, busy) ==
    IF matches.raised
    THEN /\ stdout' = "Scheduler error"
         /\ message_box' = ""
         /\ UNCHANGED <<scan_vars, workers, emitted, schedule_file>>
    ELSE IF matches.value /\ not_run_today
    THEN IF busy
         THEN /\ stdout' = "Scheduled scan skipped"
              /\ message_box' = ""
              /\ UNCHANGED <<scan_vars, workers, emitted, schedule_file>>
         ELSE /\ start_scan(schedule_file.type, "")
              /\ schedule_file' = [schedule_file EXCEPT !.last_run = now.date]
    ELSE /\ Silent
         /\ UNCHANGED <<scan_vars, workers, emitted, schedule_file>>

\* the ticks of today so far
TodaysTicks ==
    IF sched_log.date = now.date THEN sched_log
    ELSE [date |-> now.date, ticks |-> 0, started |-> 0]

\* the tick falls in the minute the schedule names
InTriggerMinute ==
    schedule_file.exists /\ schedule_file.enabled /\ schedule_file.time = now.time

\* history: a tick in the trigger minute is counted, and so is the scan it
\* starts
LogTick ==
    IF InTriggerMinute
    THEN /\ TodaysTicks.ticks < MaxTicks
         /\ sched_log' = [TodaysTicks EXCEPT
                !.ticks = @ + 1,
                !.started = IF scan_thread' # scan_thread THEN @ + 1 ELSE @]
    ELSE UNCHANGED sched_log

\* variant: the times are compared as hour and minute and last_run is not
\* consulted
check_schedule_every_tick ==
    /\ gui_pc = "idle"
    /\ IF ~schedule_file.exists \/ ~schedule_file.enabled
       THEN /\ Silent
            /\ UNCHANGED <<scan_vars, workers, emitted, schedule_file>>
       ELSE Tick([raised |-> FALSE, value |-> now.time = schedule_file.time], TRUE,
                 ScanInProgress)
    /\ LogTick
    /\ UNCHANGED <<now, queue, gui_pc, file_vars, side_vars>>

\* variant: the times are compared as hour and minute and the running check
\* is left to start_scan
check_schedule_no_running_check ==
    /\ gui_pc = "idle"
    /\ IF ~schedule_file.exists \/ ~schedule_file.enabled
       THEN /\ Silent
            /\ UNCHANGED <<scan_vars, workers, emitted, schedule_file>>
       ELSE Tick([raised |-> FALSE, value |-> now.time = schedule_file.time],
                 schedule_file.last_run # now.date, FALSE)
    /\ LogTick
    /\ UNCHANGED <<now, queue, gui_pc, file_vars, side_vars>>

\* check_schedule, the QTimer slot
check_schedule ==
    /\ gui_pc = "idle"
    /\ IF ~schedule_file.exists \/ ~schedule_file.enabled
       THEN /\ Silent
            /\ UNCHANGED <<scan_vars, workers, emitted, schedule_file>>
       ELSE Tick(TimeMatches(now.time, schedule_file.time),
                 schedule_file.last_run # now.date, ScanInProgress)
    /\ LogTick
    /\ UNCHANGED <<now, queue, gui_pc, file_vars, side_vars>>

\* the wall clock moves on
AdvanceClock ==
    /\ IF now.time.minute = 0
       THEN now' = [now EXCEPT !.time.minute = 1]
       ELSE /\ now.date < MaxDay
            /\ now' = [date |-> now.date + 1, time |-> [hour |-> 9, minute |-> 0]]
    /\ UNCHANGED <<widget_vars, schedule_file, workers, queue, emitted, gui_pc,
                   file_vars, sched_log, side_vars>>

(* ------------------------------------------- AntivirusWidget, quarantine *)
\* what the quarantine handlers leave alone
scan_state ==
    <<scan_thread, manual_stop, progress_bar, pause_btn, stop_btn, history, schedule_file,
      now, workers, queue, emitted, gui_pc, signatures, probe, finding, sched_log,
      side_vars>>

\* sorted(list(set(item.row() for item in selected)), reverse=True)
RECURSIVE Descending(_)
Descending(rows) ==
    IF rows = {} THEN <<>>
    ELSE LET row == CHOOSE r \in rows : \A q \in rows : q <= r
         IN  <<row>> \o Descending(rows \ {row})

\* QTableWidget.removeRow
removeRow(table, row) == SubSeq(table, 1, row - 1) \o SubSeq(table, row + 1, Len(table))

\* shutil.move(src, dst) of a regular file: a file already at dst is replaced
move(files, src, dst) == [files EXCEPT ![dst] = files[src], ![src] = Absent]

\* load_quarantine_items: one row per log entry, holding the entry
load_quarantine_items(log_entries) == log_entries

\* variant: the row is removed and counted whether or not the file was moved
QuarantineRowAlwaysRemoved(st, row, tick, fail) ==
    LET file_path == st.table[row]
        clock == IF tick /\ st.clock < MaxStamp THEN st.clock + 1 ELSE st.clock
        dest_path == QuarantinePath(clock, file_path)
    IN  IF ~st.files[file_path].exists \/ fail
        THEN [st EXCEPT !.clock = clock, !.table = removeRow(st.table, row),
                        !.errors = @ \/ fail]
        ELSE [st EXCEPT !.clock = clock,
                        !.files = move(st.files, file_path, dest_path),
                        !.log_entries = Append(@, [original_path |-> file_path,
                                                   quarantine_path |-> dest_path,
                                                   timestamp |-> clock]),
                        !.table = removeRow(st.table, row),
                        !.quarantined_count = @ + 1]

\* quarantine_threat, one pass of the loop over the selected rows; tick: the
\* clock has moved to the next second since the last row; fail: shutil.move
\* raises
QuarantineRow(st, row, tick, fail) ==
    LET file_path == st.table[row]
        clock == IF tick /\ st.clock < MaxStamp THEN st.clock + 1 ELSE st.clock
        dest_path == QuarantinePath(clock, file_path)
    IN  IF ~st.files[file_path].exists THEN [st EXCEPT !.clock = clock]
        ELSE IF fail THEN [st EXCEPT !.clock = clock, !.errors = TRUE]
        ELSE [st EXCEPT !.clock = clock,
                        !.files = move(st.files, file_path, dest_path),
                        !.log_entries = Append(@, [original_path |-> file_path,
                                                   quarantine_path |-> dest_path,
                                                   timestamp |-> clock]),
                        !.table = removeRow(st.table, row),
                        !.quarantined_count = @ + 1]

\* quarantine_threat, the loop
RECURSIVE QuarantineRows(_, _, _, _)
QuarantineRows(st, order, ticks, fails) ==
    IF order = <<>> THEN st
    ELSE QuarantineRows(QuarantineRow(st, Head(order), Head(order) \in ticks,
                                      Head(order) \in fails),
                        Tail(order), ticks, fails)

\* quarantine_threat with the rows selected and the confirmation given
quarantine_rows(rows, ticks, fails) ==
    LET st == QuarantineRows([files |-> disk, log_entries |-> quarantine_log,
                              table |-> results_table, clock |-> qclock + 1,
                              quarantined_count |-> 0, errors |-> FALSE],
                             Descending(rows), ticks, fails)
    IN  /\ gui_pc = "idle"
        /\ rows # {}
        /\ qclock < MaxStamp
        /\ disk' = st.files
        /\ quarantine_log' = st.log_entries
        /\ quarantine_table' = load_quarantine_items(st.log_entries)
        /\ results_table' = st.table
        /\ qclock' = st.clock
        /\ stdout' = IF st.errors THEN "Error quarantining" ELSE ""
        /\ message_box' = IF st.quarantined_count > 0 THEN "Success" ELSE ""
        /\ UNCHANGED scan_state

\* a handler that returns at once: nothing selected, or the confirmation
\* declined
Declined ==
    /\ gui_pc = "idle"
    /\ Silent
    /\ UNCHANGED <<results_table, disk, quarantine_log, quarantine_table, qclock, scan_state>>

\* AntivirusWidget.quarantine_threat
quarantine_threat ==
    \/ Declined
    \/ \E rows \in SUBSET (1..Len(results_table)) :
          \E ticks \in SUBSET rows, fails \in SUBSET rows : quarantine_rows(rows, ticks, fails)

\* variant: the entry leaves the log whether or not the move succeeded
RestoreRowAlwaysCleaned(st, row, fail) ==
    LET entry == quarantine_table[row]
        q_path == entry.quarantine_path
        orig_path == entry.original_path
    IN  IF st.files[q_path].exists /\ ~fail
        THEN [st EXCEPT !.files = move(st.files, q_path, orig_path),
                        !.paths = @ \cup {q_path}]
        ELSE [st EXCEPT !.paths = @ \cup {q_path},
                        !.errors = @ \/ st.files[q_path].exists]

\* restore_selected, one pass of the loop; fail: makedirs or shutil.move raises
RestoreRow(st, row, fail) ==
    LET entry == quarantine_table[row]
        q_path == entry.quarantine_path
        orig_path == entry.original_path
    IN  IF st.files[q_path].exists
        THEN IF fail THEN [st EXCEPT !.errors = TRUE]
             ELSE [st EXCEPT !.files = move(st.files, q_path, orig_path),
                             !.paths = @ \cup {q_path}]
        ELSE [st EXCEPT !.paths = @ \cup {q_path}]

\* restore_selected, the loop
RECURSIVE RestoreRows(_, _, _)
RestoreRows(st, order, fails) ==
    IF order = <<>> THEN st
    ELSE RestoreRows(RestoreRow(st, Head(order), Head(order) \in fails), Tail(order), fails)

\* "[e for e in log_entries if e['quarantine_path'] not in paths]"
Without(log_entries, paths) ==
    SelectSeq(log_entries, LAMBDA e : e.quarantine_path \notin paths)

\* restore_selected with the rows selected; the boxes shown are a warning per
\* failed move and the final "Success"
restore_rows(rows, fails) ==
    LET st == RestoreRows([files |-> disk, paths |-> {}, errors |-> FALSE],
                          Descending(rows), fails)
    IN  /\ gui_pc = "idle"
        /\ rows # {}
        /\ disk' = st.files
        /\ quarantine_log' = Without(quarantine_log, st.paths)
        /\ quarantine_table' = load_quarantine_items(Without(quarantine_log, st.paths))
        /\ message_box' = IF st.errors THEN "Error, Success" ELSE "Success"
        /\ stdout' = ""
        /\ UNCHANGED <<results_table, qclock, scan_state>>

\* AntivirusWidget.restore_selected
restore_selected ==
    \/ Declined
    \/ \E rows \in SUBSET (1..Len(quarantine_table)) :
          \E fails \in SUBSET rows : restore_rows(rows, fails)

\* delete_quarantined_selected, one pass of the loop; fail: os.remove raises
DeleteRow(st, row, fail) ==
    LET q_path == quarantine_table[row].quarantine_path
    IN  [st EXCEPT !.files = IF st.files[q_path].exists /\ ~fail
                             THEN [@ EXCEPT ![q_path] = Absent] ELSE @,
                   !.paths = @ \cup {q_path}]

\* delete_quarantined_selected, the loop
RECURSIVE DeleteRows(_, _, _)
DeleteRows(st, order, fails) ==
    IF order = <<>> THEN st
    ELSE DeleteRows(DeleteRow(st, Head(order), Head(order) \in fails), Tail(order), fails)

\* delete_quarantined_selected with the rows selected and the confirmation
\* given
delete_rows(rows, fails) ==
    LET st == DeleteRows([files |-> disk, paths |-> {}], Descending(rows), fails)
    IN  /\ gui_pc = "idle"
        /\ rows # {}
        /\ disk' = st.files
        /\ quarantine_log' = Without(quarantine_log, st.paths)
        /\ quarantine_table' = load_quarantine_items(Without(quarantine_log, st.paths))
        /\ Silent
        /\ UNCHANGED <<results_table, qclock, scan_state>>

\* AntivirusWidget.delete_quarantined_selected
delete_quarantined_selected ==
    \/ Declined
    \/ \E rows \in SUBSET (1..Len(quarantine_table)) :
          \E fails \in SUBSET rows : delete_rows(rows, fails)

\* another process removes a file the widget lists, on disk or in the
\* quarantine directory
FileRemoved ==
    /\ \E path \in AllPaths :
          /\ disk[path].exists
          /\ disk' = [disk EXCEPT ![path] = Absent]
    /\ UNCHANGED <<results_table, quarantine_log, quarantine_table, qclock, output_vars,
                   scan_state>>

(* ------------------------------------------------- real-time protection *)
\* toggle_realtime: an Observer on the home directory, not recursive, is
\* started, or the running one is stopped and joined
toggle_realtime ==
    /\ gui_pc = "idle"
    /\ observer' = ~observer
    /\ Silent
    /\ UNCHANGED <<scan_vars, schedule_file, now, workers, queue, emitted, gui_pc,
                   file_vars, sched_log, updaters, db_lock>>

\* the events watchdog reports for the entries of the home directory
Events ==
    {[src_path |-> "Documents", is_directory |-> TRUE],
     [src_path |-> "Downloads", is_directory |-> TRUE],
     [src_path |-> "setup.tmp", is_directory |-> FALSE],
     [src_path |-> "invoice.pdf.exe", is_directory |-> FALSE]}

\* AntivirusWidget.on_realtime_event, run by the observer's thread: one line
\* is printed
on_realtime_event(file_path) ==
    /\ stdout' = "Real-time detection: File modified/created: " \o file_path
    /\ UNCHANGED <<scan_vars, message_box, schedule_file, now, workers, queue, emitted,
                   gui_pc, file_vars, sched_log, side_vars>>

\* variant: the callback is invoked for directories as well
dispatch_any(event) == on_realtime_event(event.src_path)

\* RealTimeHandler.on_created and on_modified:
\* "if not event.is_directory: self.callback(event.src_path)"
dispatch(event) ==
    IF ~event.is_directory THEN on_realtime_event(event.src_path) ELSE UNCHANGED vars

\* RealTimeHandler.on_created
on_created ==
    /\ observer
    /\ \E event \in Events : dispatch(event)

\* RealTimeHandler.on_modified
on_modified ==
    /\ observer
    /\ \E event \in Events : dispatch(event)

(* ------------------------------------------------ UpdateDefinitionsWorker *)
\* AntivirusWidget.update_definitions: a worker is created and started
update_definitions(u) ==
    /\ updaters[u].pc = "idle"
    /\ updaters[u].runs < MaxUpdates
    /\ updaters' = [updaters EXCEPT ![u] =
            [NoUpdater EXCEPT !.pc = "connect", !.runs = updaters[u].runs + 1]]
    /\ UNCHANGED <<widget_vars, schedule_file, now, workers, queue, emitted, gui_pc,
                   file_vars, sched_log, db_lock, observer>>

\* run: an exception ends in "self.finished.emit(False, ...)"; the connection
\* goes away with what it had not committed
Failed(u) ==
    /\ updaters' = [updaters EXCEPT ![u] =
            [@ EXCEPT !.pc = "idle", !.pending = {}, !.result = "failed"]]
    /\ db_lock' = IF db_lock = u THEN 0 ELSE db_lock
    /\ UNCHANGED signatures

\* another connection holds the write lock: the statement waits, and raises
\* "database is locked" when the wait times out
Locked(u) == db_lock \notin {0, u}

\* another connection has read the table and not yet run its next statement:
\* a commit may find the database busy
Busy(u) == \E v \in UpdaterIds \ {u} : updaters[v].pc = "insert"

\* run: "db = DatabaseManager()", init_db up to its INSERT OR IGNORE
UpdConnect(u) ==
    /\ updaters[u].pc = "connect"
    /\ \/ /\ ~Locked(u)
          /\ updaters' = [updaters EXCEPT ![u] =
                  [@ EXCEPT !.pc = "seeded",
                            !.pending = insert_or_ignore(Visible(u), eicar)]]
          /\ db_lock' = u
          /\ UNCHANGED signatures
       \/ /\ Locked(u)
          /\ Failed(u)
    /\ UNCHANGED <<widget_vars, schedule_file, now, workers, queue, emitted, gui_pc,
                   disk, probe, finding, quarantine_log, quarantine_table, qclock,
                   sched_log, observer>>

\* init_db: "self.conn.commit()"
UpdSeeded(u) ==
    /\ updaters[u].pc = "seeded"
    /\ \/ /\ signatures' = signatures \cup updaters[u].pending
          /\ updaters' = [updaters EXCEPT ![u] = [@ EXCEPT !.pc = "select", !.pending = {}]]
          /\ db_lock' = 0
       \/ /\ Busy(u)
          /\ Failed(u)
    /\ UNCHANGED <<widget_vars, schedule_file, now, workers, queue, emitted, gui_pc,
                   disk, probe, finding, quarantine_log, quarantine_table, qclock,
                   sched_log, observer>>

\* run: "SELECT hash FROM signatures WHERE hash=?" for the next signature, or
\* the end of the loop
UpdSelect(u) ==
    LET w == updaters[u]
    IN  /\ w.pc = "select"
        /\ updaters' = [updaters EXCEPT ![u] =
                IF w.i > Len(new_sigs) THEN [w EXCEPT !.pc = "commit"]
                ELSE IF \E r \in Visible(u) : r.hash = new_sigs[w.i].hash
                THEN [w EXCEPT !.i = @ + 1]
                ELSE [w EXCEPT !.pc = "insert"]]
        /\ UNCHANGED <<widget_vars, schedule_file, now, workers, queue, emitted, gui_pc,
                       file_vars, sched_log, db_lock, observer>>

\* run: "INSERT INTO signatures ..." and "added += 1"
UpdInsert(u) ==
    LET w == updaters[u]
        done == insert(Visible(u), new_sigs[w.i])
    IN  /\ w.pc = "insert"
        /\ \/ /\ ~Locked(u)
              /\ ~done.raised
              /\ updaters' = [updaters EXCEPT ![u] =
                      [w EXCEPT !.pc = "select", !.i = @ + 1, !.added = @ + 1,
                                !.pending = @ \cup done.row]]
              /\ db_lock' = u
              /\ UNCHANGED signatures
           \/ /\ ~Locked(u)
              /\ done.raised
              /\ Failed(u)
           \/ /\ Locked(u)
              /\ Failed(u)
        /\ UNCHANGED <<widget_vars, schedule_file, now, workers, queue, emitted, gui_pc,
                       disk, probe, finding, quarantine_log, quarantine_table, qclock,
                       sched_log, observer>>

\* run: "db.conn.commit()" and "self.finished.emit(True, ...)"
UpdCommit(u) ==
    /\ updaters[u].pc = "commit"
    /\ \/ /\ signatures' = signatures \cup updaters[u].pending
          /\ updaters' = [updaters EXCEPT ![u] =
                  [@ EXCEPT !.pc = "idle", !.pending = {}, !.result = "ok"]]
          /\ db_lock' = IF db_lock = u THEN 0 ELSE db_lock
       \/ /\ Busy(u)
          /\ Failed(u)
    /\ UNCHANGED <<widget_vars, schedule_file, now, workers, queue, emitted, gui_pc,
                   disk, probe, finding, quarantine_log, quarantine_table, qclock,
                   sched_log, observer>>

(* -------------------------------------------------------- specification *)
Init ==
    /\ scan_thread = 0
    /\ manual_stop = FALSE
    /\ progress_bar = [value |-> -1, maximum |-> 100]
    /\ pause_btn = [enabled |-> FALSE, text |-> "Pause"]
    /\ stop_btn = [enabled |-> FALSE]
    /\ results_table = <<>>
    /\ history = <<>>
    /\ message_box = ""
    /\ stdout = ""
    /\ schedule_file = NoSchedule
    /\ now = [date |-> 1, time |-> [hour |-> 9, minute |-> 0]]
    /\ workers = [id \in WorkerIds |-> NoWorker]
    /\ queue = <<>>
    /\ emitted = [id \in WorkerIds |-> <<>>]
    /\ gui_pc = "idle"
    /\ disk = Volume({"Documents/eicar.com", "Documents/notes.txt"}, {})
    /\ signatures = init_db
    /\ probe = [path |-> "Documents/notes.txt", file |-> FileInfo("Documents/notes.txt")]
    /\ finding = Pending
    /\ quarantine_log = <<>>
    /\ quarantine_table = <<>>
    /\ qclock = 0
    /\ sched_log = [date |-> 1, ticks |-> 0, started |-> 0]
    /\ updaters = [u \in UpdaterIds |-> NoUpdater]
    /\ db_lock = 0
    /\ observer = FALSE

Next ==
    \/ ManualStart
    \/ DropEvent
    \/ toggle_pause
    \/ stop_scan
    \/ stop_scan_locked
    \/ update_progress
    \/ add_threat_row
    \/ scan_finished
    \/ save_schedule
    \/ check_schedule
    \/ AdvanceClock
    \/ \E id \in WorkerIds : WorkerStep(id)

\* the scan controller alone: the widget's scan handlers and the worker
\* threads, with no schedule file
NextScan ==
    \/ ManualStart
    \/ DropEvent
    \/ toggle_pause
    \/ stop_scan
    \/ stop_scan_locked
    \/ update_progress
    \/ add_threat_row
    \/ scan_finished
    \/ \E id \in WorkerIds : WorkerStep(id)

ScanSpec == Init /\ [][NextScan]_vars

\* the widget on a volume on which the first file of a Full scan is 29 of
\* the 50 megabytes in use
InitProgress ==
    /\ scan_thread = 0
    /\ manual_stop = FALSE
    /\ progress_bar = [value |-> -1, maximum |-> 100]
    /\ pause_btn = [enabled |-> FALSE, text |-> "Pause"]
    /\ stop_btn = [enabled |-> FALSE]
    /\ results_table = <<>>
    /\ history = <<>>
    /\ message_box = ""
    /\ stdout = ""
    /\ schedule_file = NoSchedule
    /\ now = [date |-> 1, time |-> [hour |-> 9, minute |-> 0]]
    /\ workers = [id \in WorkerIds |-> NoWorker]
    /\ queue = <<>>
    /\ emitted = [id \in WorkerIds |-> <<>>]
    /\ gui_pc = "idle"
    /\ disk = [Volume({"Documents/notes.txt", "Downloads/invoice.pdf.exe"}, {})
                    EXCEPT !["Documents/notes.txt"] =
                        [exists |-> TRUE, hash |-> "fcde2b", size |-> 29, readable |-> TRUE]]
    /\ signatures = init_db
    /\ probe = [path |-> "Documents/notes.txt", file |-> FileInfo("Documents/notes.txt")]
    /\ finding = Pending
    /\ quarantine_log = <<>>
    /\ quarantine_table = <<>>
    /\ qclock = 0
    /\ sched_log = [date |-> 1, ticks |-> 0, started |-> 0]
    /\ updaters = [u \in UpdaterIds |-> NoUpdater]
    /\ db_lock = 0
    /\ observer = FALSE

ProgressSpec == InitProgress /\ [][NextScan]_vars

\* the widget with the scan_schedule.json it can find when it is constructed:
\* none, or one kept from an earlier session
InitStored ==
    /\ scan_thread = 0
    /\ manual_stop = FALSE
    /\ progress_bar = [value |-> -1, maximum |-> 100]
    /\ pause_btn = [enabled |-> FALSE, text |-> "Pause"]
    /\ stop_btn = [enabled |-> FALSE]
    /\ results_table = <<>>
    /\ history = <<>>
    /\ message_box = ""
    /\ stdout = ""
    /\ schedule_file \in
            {NoSchedule} \cup [exists : {TRUE}, enabled : BOOLEAN, type : {"Quick", "Full"},
                                time : SchedTimes, last_run : 0..MaxDay]
    /\ now = [date |-> 1, time |-> [hour |-> 9, minute |-> 0]]
    /\ workers = [id \in WorkerIds |-> NoWorker]
    /\ queue = <<>>
    /\ emitted = [id \in WorkerIds |-> <<>>]
    /\ gui_pc = "idle"
    /\ disk = Volume({"Documents/eicar.com"}, {})
    /\ signatures = init_db
    /\ probe = [path |-> "Documents/notes.txt", file |-> FileInfo("Documents/notes.txt")]
    /\ finding = Pending
    /\ quarantine_log = <<>>
    /\ quarantine_table = <<>>
    /\ qclock = 0
    /\ sched_log = [date |-> 1, ticks |-> 0, started |-> 0]
    /\ updaters = [u \in UpdaterIds |-> NoUpdater]
    /\ db_lock = 0
    /\ observer = FALSE

\* the schedule tab and the timer
StoredSpec == InitStored /\ [][save_schedule \/ check_schedule \/ AdvanceClock]_vars

\* the scheduler beside all handlers of the widget, on a volume with one file
InitSched ==
    /\ scan_thread = 0
    /\ manual_stop = FALSE
    /\ progress_bar = [value |-> -1, maximum |-> 100]
    /\ pause_btn = [enabled |-> FALSE, text |-> "Pause"]
    /\ stop_btn = [enabled |-> FALSE]
    /\ results_table = <<>>
    /\ history = <<>>
    /\ message_box = ""
    /\ stdout = ""
    /\ schedule_file = NoSchedule
    /\ now = [date |-> 1, time |-> [hour |-> 9, minute |-> 0]]
    /\ workers = [id \in WorkerIds |-> NoWorker]
    /\ queue = <<>>
    /\ emitted = [id \in WorkerIds |-> <<>>]
    /\ gui_pc = "idle"
    /\ disk = Volume({"Documents/eicar.com"}, {})
    /\ signatures = init_db
    /\ probe = [path |-> "Documents/notes.txt", file |-> FileInfo("Documents/notes.txt")]
    /\ finding = Pending
    /\ quarantine_log = <<>>
    /\ quarantine_table = <<>>
    /\ qclock = 0
    /\ sched_log = [date |-> 1, ticks |-> 0, started |-> 0]
    /\ updaters = [u \in UpdaterIds |-> NoUpdater]
    /\ db_lock = 0
    /\ observer = FALSE

SchedSpec == InitSched /\ [][Next]_vars

\* the volume of the quarantine runs: three files the detector flags, two of
\* them with the same name, and a clean one
ThreatVolume == Volume(OrigPaths, {})

\* the worker of a Quick scan that ran to its end, its thread finished
QuickScanDone ==
    LET w == [NewWorker(ScanPaths("Quick", ""), "Quick") EXCEPT
                !.files = Enumerate(ScanPaths("Quick", "")),
                !.total_files = Len(Enumerate(ScanPaths("Quick", "")))]
    IN  [LoopCount(w, 1) EXCEPT !.pc = "dead"]

\* the signals of that scan
QuickScanSignals ==
    LET w == [NewWorker(ScanPaths("Quick", ""), "Quick") EXCEPT
                !.files = Enumerate(ScanPaths("Quick", "")),
                !.total_files = Len(Enumerate(ScanPaths("Quick", "")))]
    IN  LoopSignals(1, w, 1)

\* the paths of the threat_found signals among sigs, in order
RECURSIVE ThreatPaths(_)
ThreatPaths(sigs) ==
    IF sigs = <<>> THEN <<>>
    ELSE (IF Head(sigs).sig = "threat_found" THEN <<Head(sigs).path>> ELSE <<>>)
         \o ThreatPaths(Tail(sigs))

\* the widget after a Quick scan of the threat volume has run to its end and
\* all its signals are delivered: the findings are listed in results_table
InitQuarantine ==
    /\ disk = ThreatVolume
    /\ signatures = init_db
    /\ now = [date |-> 1, time |-> [hour |-> 9, minute |-> 0]]
    /\ scan_thread = 1
    /\ manual_stop = FALSE
    /\ workers = [id \in WorkerIds |-> IF id = 1 THEN QuickScanDone ELSE NoWorker]
    /\ emitted = [id \in WorkerIds |-> IF id = 1 THEN QuickScanSignals ELSE <<>>]
    /\ queue = <<>>
    /\ results_table = ThreatPaths(QuickScanSignals)
    /\ history = <<<<"Quick", QuickScanDone.scanned_count, QuickScanDone.threats>>>>
    /\ progress_bar = [value |-> 100, maximum |-> 100]
    /\ pause_btn = [enabled |-> FALSE, text |-> "Pause"]
    /\ stop_btn = [enabled |-> FALSE]
    /\ message_box = "Threats Detected"
    /\ stdout = ""
    /\ schedule_file = NoSchedule
    /\ gui_pc = "idle"
    /\ probe = [path |-> "Documents/notes.txt", file |-> FileInfo("Documents/notes.txt")]
    /\ finding = Pending
    /\ quarantine_log = <<>>
    /\ quarantine_table = <<>>
    /\ qclock = 0
    /\ sched_log = [date |-> 1, ticks |-> 0, started |-> 0]
    /\ updaters = [u \in UpdaterIds |-> NoUpdater]
    /\ db_lock = 0
    /\ observer = FALSE

\* the quarantine handlers on the findings of that scan
NextQuarantine ==
    \/ quarantine_threat
    \/ restore_selected
    \/ delete_quarantined_selected
    \/ FileRemoved
    \/ clear_history

QuarantineSpec == InitQuarantine /\ [][NextQuarantine]_vars

\* the paths a probe file is handed over with
ProbePaths == {"Documents/probe", "my.files/probe"}

\* the content hashes of the probe files: the EICAR seed, two hashes an
\* update brings, and one no store holds
ProbeHashes == {"275a02", "5e8848", "e3b0c4", "9f86d0"}

\* the signatures table as seeded and after update_definitions
Stores == {init_db, updated_db}

\* the detector on its own: any probe file against either store
InitDetector ==
    /\ scan_thread = 0
    /\ manual_stop = FALSE
    /\ progress_bar = [value |-> -1, maximum |-> 100]
    /\ pause_btn = [enabled |-> FALSE, text |-> "Pause"]
    /\ stop_btn = [enabled |-> FALSE]
    /\ results_table = <<>>
    /\ history = <<>>
    /\ message_box = ""
    /\ stdout = ""
    /\ schedule_file = NoSchedule
    /\ now = [date |-> 1, time |-> [hour |-> 9, minute |-> 0]]
    /\ workers = [id \in WorkerIds |-> NoWorker]
    /\ queue = <<>>
    /\ emitted = [id \in WorkerIds |-> <<>>]
    /\ gui_pc = "idle"
    /\ disk = Volume({"Documents/eicar.com", "Documents/notes.txt"}, {})
    /\ signatures \in Stores
    /\ probe \in [path : ProbePaths,
                  file : [name : NamesUpTo(MaxSegments) \ {<<>>}, hash : ProbeHashes,
                          readable : BOOLEAN, size : {1}]]
    /\ finding = Pending
    /\ quarantine_log = <<>>
    /\ quarantine_table = <<>>
    /\ qclock = 0
    /\ sched_log = [date |-> 1, ticks |-> 0, started |-> 0]
    /\ updaters = [u \in UpdaterIds |-> NoUpdater]
    /\ db_lock = 0
    /\ observer = FALSE

\* ScanWorker.scan_file called on the probe
scan_probe ==
    /\ finding' = scan_file_on(probe.path, probe.file, now.time)
    /\ UNCHANGED <<widget_vars, schedule_file, now, workers, queue, emitted, gui_pc, disk,
                   signatures, probe, quarantine_log, quarantine_table, qclock, sched_log, side_vars>>

NextDetector ==
    \/ scan_probe
    \/ AdvanceClock

DetectorSpec == InitDetector /\ [][NextDetector]_vars

\* a volume on which a file cannot be opened: the signature file, or the
\* double-extension file
InitReadError ==
    /\ scan_thread = 0
    /\ manual_stop = FALSE
    /\ progress_bar = [value |-> -1, maximum |-> 100]
    /\ pause_btn = [enabled |-> FALSE, text |-> "Pause"]
    /\ stop_btn = [enabled |-> FALSE]
    /\ results_table = <<>>
    /\ history = <<>>
    /\ message_box = ""
    /\ stdout = ""
    /\ schedule_file = NoSchedule
    /\ now = [date |-> 1, time |-> [hour |-> 9, minute |-> 0]]
    /\ workers = [id \in WorkerIds |-> NoWorker]
    /\ queue = <<>>
    /\ emitted = [id \in WorkerIds |-> <<>>]
    /\ gui_pc = "idle"
    /\ \E locked \in {{"Documents/eicar.com"}, {"Documents/invoice.pdf.exe"}} :
          disk = Volume({"Documents/eicar.com", "Documents/invoice.pdf.exe"}, locked)
    /\ signatures = init_db
    /\ probe = [path |-> "Documents/notes.txt", file |-> FileInfo("Documents/notes.txt")]
    /\ finding = Pending
    /\ quarantine_log = <<>>
    /\ quarantine_table = <<>>
    /\ qclock = 0
    /\ sched_log = [date |-> 1, ticks |-> 0, started |-> 0]
    /\ updaters = [u \in UpdaterIds |-> NoUpdater]
    /\ db_lock = 0
    /\ observer = FALSE

\* the scan controller on such a volume
ReadErrorSpec == InitReadError /\ [][NextScan]_vars

\* the real-time watch beside the scan controller, on a volume with one file
NextWatch ==
    \/ NextScan
    \/ toggle_realtime
    \/ on_created
    \/ on_modified

WatchSpec == InitSched /\ [][NextWatch]_vars

\* the definitions updates of two connections to one database
NextDb ==
    \E u \in UpdaterIds :
        \/ update_definitions(u)
        \/ UpdConnect(u)
        \/ UpdSeeded(u)
        \/ UpdSelect(u)
        \/ UpdInsert(u)
        \/ UpdCommit(u)

DbSpec == Init /\ [][NextDb]_vars

\* the operating system schedules every worker thread, and the GUI thread
\* finishes the stop() call it is in
FairScanSpec ==
    /\ ScanSpec
    /\ \A id \in WorkerIds : WF_vars(WorkerStep(id))
    /\ WF_vars(stop_scan_locked)

\* ScanWorker.pause, resume or stop called by any owner of the worker, in
\* any order
Call(id) ==
    /\ isRunning(workers[id])
    /\ \E called \in {pause(workers[id]), resume(workers[id]), stop(workers[id])} :
          workers' = [workers EXCEPT ![id] = called]
    /\ UNCHANGED <<widget_vars, schedule_file, now, file_vars, sched_log, side_vars, gui_pc,
                   queue, emitted>>

\* the worker under any caller: started by the widget, its signals delivered
\* to the widget's slots.  The operating system schedules every worker
\* thread; nothing obliges the caller to call again.
CallerSpec ==
    /\ InitSched
    /\ [][\/ ManualStart
          \/ \E id \in WorkerIds : Call(id)
          \/ update_progress
          \/ add_threat_row
          \/ scan_finished
          \/ \E id \in WorkerIds : WorkerStep(id)]_vars
    /\ \A id \in WorkerIds : WF_vars(WorkerStep(id))

(* ================================================================ claims *)
\* the workers that exist as objects
Constructed == {id \in WorkerIds : workers[id].pc \notin {"new", "collected"}}

\* the positions of the signals sig in a worker's emission log
Positions(id, sig) == {i \in 1..Len(emitted[id]) : emitted[id][i].sig = sig}

\* worker id has emitted scan_finished and the GUI thread has delivered it
FinishedDelivered(id) ==
    /\ Positions(id, "scan_finished") # {}
    /\ \A i \in 1..Len(queue) : ~(queue[i].src = id /\ queue[i].sig = "scan_finished")

(* ---- C1 ---- *)
\* C1: in every reachable state at most one ScanWorker thread is active
\* (isRunning: running or blocked in the pause wait), whatever the order of
\* manual starts, drops and scheduler ticks.
C1_SingleActiveWorker ==
    Cardinality({id \in WorkerIds : isRunning(workers[id])}) <= 1

\* a second scan runs after the first one ended, and a scheduler tick has just
\* been handled while it runs
C1_Witness ==
    /\ workers[1].pc = "collected"
    /\ isRunning(workers[2])
    /\ stdout = "Scheduler error"

(* ---- C2 ---- *)
\* C2: a start (button, file dialog or drop) while the current scan thread is
\* running shows the warning and leaves scan_thread, every worker, the results
\* table, the progress bar and manual_stop unchanged.
C2_RejectedStartChangesNothing ==
    [][(ScanInProgress /\ (ManualStart \/ DropEvent))
        => /\ message_box' = "Scan in Progress"
           /\ UNCHANGED <<scan_thread, workers, emitted, results_table, progress_bar,
                          manual_stop>>]_vars

\* a start was just rejected while a scan with progress and a finding shown
\* is in flight
C2_Witness ==
    /\ message_box = "Scan in Progress"
    /\ ScanInProgress
    /\ workers[scan_thread].scanned_count >= 1
    /\ progress_bar.value > 0
    /\ results_table # <<>>

(* ---- C3 ---- *)
\* the progress values of a run's progress_updated signals are in order
ProgressMonotone(id) ==
    \A i, j \in Positions(id, "progress_updated") :
        i < j => emitted[id][i].value <= emitted[id][j].value

\* C3: within one run the progress values a worker reports never decrease
\* and never exceed 99, and the progress bar turns to 100 only in the step that
\* delivers a scan_finished signal.
C3_ProgressMonotoneUntilFinished ==
    /\ [](\A id \in WorkerIds :
            /\ ProgressMonotone(id)
            /\ \A i \in Positions(id, "progress_updated") :
                  emitted[id][i].value \in 0..99)
    /\ [][(progress_bar'.value = 100 /\ progress_bar.value # 100)
            => (Delivering("scan_finished") /\ queue' = Tail(queue))]_vars

\* a run reported 50 and then 99, and the bar shows 100 after its
\* scan_finished was delivered
C3_Witness ==
    /\ scan_thread # 0
    /\ FinishedDelivered(scan_thread)
    /\ progress_bar.value = 100
    /\ \E i, j \in Positions(scan_thread, "progress_updated") :
          i < j /\ emitted[scan_thread][i].value = 50 /\ emitted[scan_thread][j].value = 99

(* ---- C4 ---- *)
\* stop() has set is_running = False while the worker is blocked in the
\* per-file wait or about to enter it with the paused flag set
StopWhilePaused(id) ==
    /\ ~workers[id].is_running
    /\ \/ workers[id].pc = "pf_wait"
       \/ workers[id].pc = "pf_lock" /\ workers[id].is_paused

\* C4: a worker stopped while paused is woken and goes on to emit
\* scan_finished: it does not stay blocked.
C4_StopWakesPausedWorker ==
    \A id \in WorkerIds :
        StopWhilePaused(id) ~> (workers[id].pc \in {"returning", "dead", "collected"})

\* stop() has woken a worker that was blocked in the wait
C4_Witness ==
    \E id \in WorkerIds :
        /\ workers[id].pc = "pf_wait"
        /\ workers[id].woken
        /\ ~workers[id].is_running
        /\ manual_stop

(* ---- C5 ---- *)
\* every signal of the run of worker id, had it never been paused or stopped
UnpausedRun(id) ==
    LET w == [workers[id] EXCEPT !.scanned_count = 0, !.scanned_bytes = 0, !.threats = 0]
    IN  (IF w.scan_type = "Full"
         THEN <<ProgressUpdated(id, 0, "Calculating drive usage...")>> ELSE <<>>)
        \o LoopSignals(id, w, 1)

\* C5: a run that was paused and resumed (any number of times, at any point)
\* and never stopped emits exactly the signals of the run with no pause: the
\* same files in the same order, the same findings, the same scan_finished.
C5_PauseResumeSameRun ==
    \A id \in WorkerIds :
        (workers[id].pc \in {"returning", "dead"} /\ workers[id].is_running)
            => emitted[id] = UnpausedRun(id)

\* a worker blocked before its second file by pause() has been released by
\* resume(), with no stop
C5_Witness ==
    \E id \in WorkerIds :
        /\ workers[id].pc = "pf_wait"
        /\ workers[id].woken
        /\ workers[id].is_running
        /\ ~workers[id].is_paused
        /\ workers[id].idx = 2
        /\ workers[id].scanned_count = 1

(* ---- C6 ---- *)
\* C6: once the scan_finished signal of a stopped run has been delivered, a
\* start is accepted (the scan thread no longer counts as running).
C6_StartAcceptedAfterStop ==
    (/\ scan_thread # 0
     /\ manual_stop
     /\ message_box = "Scan Stopped"
     /\ FinishedDelivered(scan_thread))
        => ~ScanInProgress

(* ---- C7 ---- *)
\* C7: in a Quick, Custom or File run 0 <= threats <= scanned_count <=
\* total_files always, and scan_finished reports no more files than were
\* enumerated.
C7_CountersOrdered ==
    \A id \in Constructed :
        workers[id].scan_type \in {"Quick", "Custom", "File"}
            => /\ 0 <= workers[id].threats
               /\ workers[id].threats <= workers[id].scanned_count
               /\ workers[id].scanned_count <= workers[id].total_files
               /\ \A i \in Positions(id, "scan_finished") :
                     /\ emitted[id][i].value <= Len(workers[id].files)
                     /\ emitted[id][i].threats <= emitted[id][i].value

\* a stopped Quick run that reported one of its two files, a threat
C7_Witness ==
    \E id \in WorkerIds :
        /\ workers[id].pc = "dead"
        /\ workers[id].scan_type = "Quick"
        /\ ~workers[id].is_running
        /\ workers[id].total_files = 2
        /\ \E i \in Positions(id, "scan_finished") :
              emitted[id][i].value = 1 /\ emitted[id][i].threats = 1

(* ---- C8 ---- *)
\* the files a run has passed to process_file's scan part
FilesProcessed(id) ==
    {i \in Positions(id, "progress_updated") : emitted[id][i].path \in OrigPaths}

\* the detected files among the files of a run
Detected(id) == {i \in 1..Len(workers[id].files) : ~scan_file(workers[id].files[i]).none}

\* C8: a run emits scan_finished at most once and as its last signal, with
\* the number of files processed and of threat_found signals of that run; a
\* run that has ended has emitted it; a run over n files of which k are
\* detected, all processed, reports (n, k) with k findings.
C8_FinishedOnceLastAndExact ==
    \A id \in Constructed :
        LET e == emitted[id]
            fin == Positions(id, "scan_finished")
        IN  /\ Cardinality(fin) <= 1
            /\ \A i \in fin :
                  /\ i = Len(e)
                  /\ e[i].value = Cardinality(FilesProcessed(id))
                  /\ e[i].threats = Cardinality(Positions(id, "threat_found"))
            /\ workers[id].pc \in {"returning", "dead"} => fin # {}
            /\ (workers[id].pc \in {"returning", "dead"}
                  /\ Cardinality(FilesProcessed(id)) = Len(workers[id].files))
                => /\ e[Len(e)].value = Len(workers[id].files)
                   /\ e[Len(e)].threats = Cardinality(Detected(id))
                   /\ Cardinality(Positions(id, "threat_found")) = Cardinality(Detected(id))

\* a finished run over two files, one of them detected: finished(2, 1)
C8_Witness ==
    \E id \in WorkerIds :
        /\ workers[id].pc = "dead"
        /\ Len(workers[id].files) = 2
        /\ Positions(id, "scan_finished") # {}
        /\ emitted[id][Len(emitted[id])].value = 2
        /\ emitted[id][Len(emitted[id])].threats = 1

(* ---- C9 ---- *)
\* C9: on every worker state, a second pause() changes nothing after the
\* first and a second stop() nothing after the first, and neither moves the
\* thread: a worker that has not entered run() or has finished stays there.
C9_PauseStopIdempotent ==
    \A id \in Constructed :
        LET w == workers[id]
        IN  /\ pause(pause(w)) = pause(w)
            /\ stop(stop(w)) = stop(w)
            /\ pause(w).pc = w.pc
            /\ stop(w).pc = w.pc
            /\ isRunning(pause(w)) = isRunning(w)
            /\ isRunning(stop(w)) = isRunning(w)
            /\ pause(w).is_paused
            /\ ~stop(w).is_running /\ ~stop(w).is_paused

\* pause() was called on a worker that has finished, or that finished paused
C9_Witness ==
    \E id \in WorkerIds : workers[id].pc = "dead" /\ workers[id].is_paused

(* ---- C10 ---- *)
\* the schedule is enabled, its time is now, it has not run today and no scan
\* is running
Due ==
    /\ schedule_file.exists
    /\ schedule_file.enabled
    /\ schedule_file.time = now.time
    /\ schedule_file.last_run # now.date
    /\ ~ScanInProgress

\* C10: a scheduler tick that is due starts a scan of the configured type and
\* sets last_run to today.
C10_DueTickStartsScan ==
    [][(Due /\ check_schedule)
        => /\ scan_thread' # scan_thread
           /\ isRunning(workers'[scan_thread'])
           /\ workers'[scan_thread'].scan_type = schedule_file.type
           /\ schedule_file'.last_run = now.date]_vars

(* ---- C11 ---- *)
\* C11: on one calendar day at most one scheduler tick starts a scan, however
\* many ticks fall on that day and inside the trigger minute.
C11_OneScheduledScanPerDay == sched_log.started <= 1

\* two ticks of one day were handled inside the trigger minute of an enabled
\* schedule
C11_Witness ==
    /\ InTriggerMinute
    /\ sched_log.date = now.date
    /\ sched_log.ticks = 2
    /\ stdout = "Scheduler error"

(* ---- C12 ---- *)
\* C12: a tick in the trigger minute of a day the schedule has not run, taken
\* while a scan is running, leaves the running worker, its counters and
\* signals, the widget's scan state and the schedule file (last_run included)
\* unchanged.
C12_TickWhileRunningChangesNothing ==
    [][(check_schedule /\ InTriggerMinute /\ schedule_file.last_run # now.date
            /\ ScanInProgress)
        => UNCHANGED <<scan_thread, workers, emitted, queue, schedule_file, results_table,
                       progress_bar, manual_stop>>]_vars

\* such a tick has just been handled while a scan that has processed a file
\* is running
C12_Witness ==
    /\ stdout = "Scheduler error"
    /\ InTriggerMinute
    /\ schedule_file.last_run # now.date
    /\ sched_log.ticks >= 1
    /\ ScanInProgress
    /\ workers[scan_thread].scanned_count >= 1

(* ---- C13 ---- *)
\* a table or log without the rows given
RECURSIVE RemoveRows(_, _)
RemoveRows(table, order) ==
    IF order = <<>> THEN table ELSE RemoveRows(removeRow(table, Head(order)), Tail(order))

\* the quarantined file of the entry in a row is in the quarantine directory
Secured(row) == disk[quarantine_table[row].quarantine_path].exists

\* C13: restoring quarantined entries whose files are in the quarantine
\* directory, with no move failing, puts each file back at its original path
\* with the content it was quarantined with, leaves no file at its quarantine
\* path, and takes exactly the restored entries out of the log.
C13_QuarantineRestoreRoundTrip ==
    [][\A rows \in SUBSET (1..Len(quarantine_table)) :
        (restore_rows(rows, {}) /\ \A r \in rows : Secured(r))
        => /\ \A r \in rows :
                LET entry == quarantine_table[r]
                IN  /\ disk'[entry.original_path].exists
                    /\ disk'[entry.original_path].hash = Content(entry.original_path).hash
                    /\ ~disk'[entry.quarantine_path].exists
           /\ quarantine_log' = RemoveRows(quarantine_log, Descending(rows))]_vars

(* ---- C14 ---- *)
\* the rows of a selection whose file is there and whose move does not fail
Moved(rows, fails) == {r \in rows : disk[results_table[r]].exists /\ r \notin fails}

\* C14: a batch quarantine appends to the log exactly one entry per file it
\* moved and none for a path whose move fails or whose file is gone; those
\* paths stay in the findings list with their files untouched, and every
\* other selected path is moved and taken off the list.
C14_BatchQuarantinePartial ==
    [][\A rows \in SUBSET (1..Len(results_table)) :
        \A ticks \in SUBSET rows, fails \in SUBSET rows :
            quarantine_rows(rows, ticks, fails)
            => LET moved == Moved(rows, fails)
                   added == SubSeq(quarantine_log', Len(quarantine_log) + 1,
                                   Len(quarantine_log'))
               IN  /\ Len(quarantine_log') = Len(quarantine_log) + Cardinality(moved)
                   /\ SubSeq(quarantine_log', 1, Len(quarantine_log)) = quarantine_log
                   /\ \A r \in moved :
                        /\ Cardinality({i \in 1..Len(added) :
                                added[i].original_path = results_table[r]}) = 1
                        /\ ~disk'[results_table[r]].exists
                   /\ \A i \in 1..Len(added) : disk'[added[i].quarantine_path].exists
                   /\ \A r \in rows \ moved :
                        /\ \A i \in 1..Len(added) :
                                added[i].original_path # results_table[r]
                        /\ disk'[results_table[r]] = disk[results_table[r]]
                   /\ results_table' = RemoveRows(results_table, Descending(moved))]_vars

\* a batch has just moved a file and failed on another, and a listed finding
\* has no file any more
C14_Witness ==
    /\ stdout = "Error quarantining"
    /\ message_box = "Success"
    /\ quarantine_log # <<>>
    /\ \E r \in 1..Len(results_table) : ~disk[results_table[r]].exists
    /\ \E r \in 1..Len(results_table) : disk[results_table[r]].exists

(* ---- C15 ---- *)
\* C15 as stated: after a restore no selected entry is in the log, whether its
\* file was missing, was moved back, or the move failed.
C15_RestoreAlwaysCleansLog ==
    [][\A rows \in SUBSET (1..Len(quarantine_table)) :
        \A fails \in SUBSET rows :
            restore_rows(rows, fails)
            => \A r \in rows : \A i \in 1..Len(quarantine_log') :
                    quarantine_log'[i] # quarantine_table[r]]_vars

\* C15, amended: after a restore a selected entry is gone from the log when
\* its quarantined file was missing or its move back did not fail; a selected
\* entry whose file is there and whose move fails stays in the log with its
\* file still in quarantine, unless another selected entry names the same
\* quarantine path.
C15_RestoreCleansMissingAndMoved ==
    [][\A rows \in SUBSET (1..Len(quarantine_table)) :
        \A fails \in SUBSET rows :
            restore_rows(rows, fails)
            => \A r \in rows :
                LET entry == quarantine_table[r]
                IN  /\ (~Secured(r) \/ r \notin fails)
                        => \A i \in 1..Len(quarantine_log') : quarantine_log'[i] # entry
                    /\ (/\ Secured(r)
                        /\ r \in fails
                        /\ \A q \in rows \ {r} :
                              quarantine_table[q].quarantine_path # entry.quarantine_path)
                        => /\ \E i \in 1..Len(quarantine_log') : quarantine_log'[i] = entry
                           /\ disk'[entry.quarantine_path] = disk[entry.quarantine_path]]_vars

\* a restore has just failed on an entry, which is still in the log with its
\* file in quarantine, and cleaned another
C15_Witness ==
    /\ message_box = "Error, Success"
    /\ \E i \in 1..Len(quarantine_log) : disk[quarantine_log[i].quarantine_path].exists
    /\ Len(quarantine_log) = 1
    /\ qclock = 1
    /\ Len(results_table) = 1

(* ---- C16 ---- *)
\* C16: a permanent delete takes the entries of the selected rows out of the
\* log, whether the file was there, was absent or could not be removed, and
\* leaves every other entry in it.
C16_DeleteCleansExactlySelected ==
    [][\A rows \in SUBSET (1..Len(quarantine_table)) :
        \A fails \in SUBSET rows :
            delete_rows(rows, fails)
            => quarantine_log' = RemoveRows(quarantine_log, Descending(rows))]_vars

(* ---- C17 ---- *)
\* what a finding says of the file, apart from where and when it was found
Verdict(f) ==
    IF f.none THEN None
    ELSE [none |-> FALSE, name |-> f.name, type |-> f.type, severity |-> f.severity,
          method |-> f.method]

\* the file name has more than one '.' and ends, whatever the case of its
\* letters, in .exe, .bat or .vbs
DoubleExtension(name) ==
    /\ \E i, j \in 1..Len(name) : i < j /\ name[i] = "." /\ name[j] = "."
    /\ Len(name) >= 4
    /\ [i \in 1..4 |-> lower(name[Len(name) - 4 + i])] \in Executable

\* C17: the detector returns none or one finding; for a readable file whose
\* hash is in the store it is the Signature finding with the stored name, type
\* and severity, also when the file name has a double extension.
C17_SignatureBeforeHeuristic ==
    finding # Pending
    => /\ finding.none \/ finding.method \in {"Signature", "Heuristic"}
       /\ \A s \in signatures :
            (probe.file.readable /\ s.hash = probe.file.hash)
            => Verdict(finding) = [none |-> FALSE, name |-> s.name, type |-> s.type,
                                   severity |-> s.severity, method |-> "Signature"]

\* a readable probe with a double-extension name and a hash of the store was
\* classified by its signature
C17_Witness ==
    /\ finding # Pending
    /\ probe.file.readable
    /\ DoubleExtension(probe.file.name)
    /\ probe.file.hash = "5e8848"
    /\ ~finding.none
    /\ finding.name = "WannaCry"

(* ---- C18 ---- *)
\* C18: for a readable file whose hash is not in the store the detector
\* returns the Medium "Suspicious Double Extension" Heuristic finding exactly
\* when the name has more than one '.' and ends in .exe, .bat or .vbs, and
\* none otherwise.
C18_HeuristicIffDoubleExtension ==
    (/\ finding # Pending
     /\ probe.file.readable
     /\ \A s \in signatures : s.hash # probe.file.hash)
    => IF DoubleExtension(probe.file.name)
       THEN Verdict(finding) = [none |-> FALSE, name |-> "Suspicious Double Extension",
                                type |-> "Suspicious", severity |-> "Medium",
                                method |-> "Heuristic"]
       ELSE finding = None

\* a probe named i.exe with an unknown hash was classified: none
C18_Witness ==
    /\ finding = None
    /\ probe.file.readable
    /\ probe.file.name = <<"i", ".", "e", "x", "e">>
    /\ probe.file.hash = "9f86d0"

(* ---- C19 ---- *)
\* C19: no finding is reported for a file that cannot be opened, and a run
\* over such a file that is not stopped goes through every file of its list
\* and ends with scan_finished counting all of them.
C19_UnreadableFileSkipped ==
    \A id \in Constructed :
        /\ \A i \in Positions(id, "threat_found") : disk[emitted[id][i].path].readable
        /\ (workers[id].pc \in {"returning", "dead"} /\ workers[id].is_running)
            => /\ Cardinality(FilesProcessed(id)) = Len(workers[id].files)
               /\ emitted[id][Len(emitted[id])].sig = "scan_finished"
               /\ emitted[id][Len(emitted[id])].value = Len(workers[id].files)

\* a Quick run over the locked signature file and the double-extension file
\* has ended: two files counted, one finding, for the second file
C19_Witness ==
    \E id \in WorkerIds :
        /\ workers[id].pc = "dead"
        /\ workers[id].is_running
        /\ workers[id].scan_type = "Quick"
        /\ ~disk["Documents/eicar.com"].readable
        /\ workers[id].scanned_count = 2
        /\ workers[id].threats = 1
        /\ \E i \in Positions(id, "threat_found") :
              emitted[id][i].path = "Documents/invoice.pdf.exe"

C21_SignaturesNeverOverwritten ==
    /\ [](\A r, q \in signatures : r.hash = q.hash => r = q)
    /\ [][\A r \in signatures : r \in signatures']_vars

\* one connection has run the update twice and another has failed on a hash
\* the first had inserted meanwhile; the table holds the seed and the three
\* signatures of the update
C21_Witness ==
    /\ signatures = updated_db
    /\ \E u, v \in UpdaterIds :
          /\ updaters[u].runs = MaxUpdates
          /\ updaters[u].result = "ok"
          /\ updaters[u].pc = "idle"
          /\ updaters[v].result = "failed"

(* ---- C22 ---- *)
\* C22: the delivery of a scan_finished signal, of a completed or of a stopped
\* run, appends to the scan history one entry with the scan type of the run
\* that emitted the signal and the signal's two counts, and leaves the
\* entries before it as they are.
C22_FinishedAppendsOwnRun ==
    [][scan_finished
        => history' = Append(history, <<Head(queue).run, Head(queue).value,
                                        Head(queue).threats>>)]_vars

(* ---- C23 ---- *)
\* C23: after a confirmed clear_history the scan history is empty:
\* get_scan_history returns no run.
C23_ClearEmptiesHistory ==
    [][ClearConfirmed => get_scan_history' = <<>>]_vars

(* ---- C24 ---- *)
\* C24: an event of the watch on a path that is no directory invokes the
\* callback with that path, which prints one line; an event on a directory
\* invokes nothing; and no event starts a scan, runs the detector or changes
\* scan, quarantine or schedule state.
C24_WatchNotifiesOnly ==
    [][\A event \in Events :
         (observer /\ dispatch(event))
         => /\ stdout' = IF event.is_directory THEN stdout
                         ELSE "Real-time detection: File modified/created: "
                                  \o event.src_path
            /\ UNCHANGED <<scan_vars, workers, queue, emitted, gui_pc, schedule_file,
                           sched_log, file_vars, message_box>>]_vars

\* the watch has reported a file while a scan was running, and one line with
\* its path was printed
C24_Witness ==
    /\ observer
    /\ stdout = "Real-time detection: File modified/created: invoice.pdf.exe"
    /\ ScanInProgress
    /\ history = <<>>

\* C25: while is_paused is set, the worker hands a file to the rest of
\* process_file (the count, the progress signal, the detector) only if that
\* file had left the per-file pause check before the pause() that set the
\* flag
C25_NoFileBeginsWhilePaused ==
    [][\A id \in WorkerIds :
          PfScan(id) => ~(workers[id].is_paused /\ workers[id].late)]_vars

\* stop() has been called on worker id and has returned
Stopped(id) ==
    /\ workers[id].pc \notin {"new", "collected"}
    /\ ~workers[id].is_running
    /\ ~(gui_pc = "stop" /\ scan_thread = id)

\* a step in which worker id counts a file, reports one in a signal or finds
\* a threat in one
FileWork(id) ==
    \/ workers'[id].scanned_count # workers[id].scanned_count
    \/ workers'[id].scanned_bytes # workers[id].scanned_bytes
    \/ workers'[id].threats # workers[id].threats
    \/ \E i \in (Len(emitted[id]) + 1)..Len(emitted'[id]) : emitted'[id][i].path \in Files

\* C26: once stop() has returned no file passes the is_running check of
\* process_file, and only the file that was already past it is still counted,
\* reported and scanned: at most one file after the stop, for as long as
\* the worker object exists
C26_StopAtFileGranularity ==
    [][\A id \in WorkerIds :
          Stopped(id) /\ workers'[id].pc # "collected" =>
              /\ workers'[id].pc = "pf_scan" => workers[id].pc = "pf_scan"
              /\ FileWork(id) => workers[id].pc = "pf_scan" /\ workers'[id].pc = "loop"]_vars

\* stop() has returned while a file is past the is_running check and more
\* files follow it
C26_Witness ==
    \E id \in WorkerIds :
        /\ Stopped(id)
        /\ workers[id].pc = "pf_scan"
        /\ workers[id].idx < Len(workers[id].files)

Min(a, b) == IF a <= b THEN a ELSE b

\* the signals worker id emits in a step
NewSignals(id) == SubSeq(emitted'[id], Len(emitted[id]) + 1, Len(emitted'[id]))

\* C27: a Quick, Custom or File run keeps total_bytes at 0, has its whole
\* file list before it scans a file and reports min(99, floor(100 *
\* scanned_count / total_files)); a Full run enumerates no list and, with
\* total_bytes > 0, reports min(99, floor(100 * scanned_bytes / total_bytes))
C27_OneProgressUnitPerScanType ==
    /\ [](\A id \in WorkerIds :
            LET w == workers[id]
            IN  /\ w.scan_type = "Full" => w.total_files = 0
                /\ w.scan_type \in {"Quick", "Custom", "File"} =>
                        /\ w.total_bytes = 0
                        /\ w.pc = "started" => w.scanned_count = 0
                        /\ w.pc \notin {"new", "started"} =>
                                w.files = Enumerate(w.paths) /\ w.total_files = Len(w.files))
    /\ [][\A id \in WorkerIds :
            \A i \in 1..Len(NewSignals(id)) :
                LET w == workers'[id]
                    signal == NewSignals(id)[i]
                IN  signal.sig = "progress_updated" /\ signal.path \in Files =>
                        /\ w.scan_type # "Full" =>
                                signal.value = Min(99, (100 * w.scanned_count) \div w.total_files)
                        /\ w.scan_type = "Full" /\ w.total_bytes > 0 =>
                                signal.value = Min(99, (100 * w.scanned_bytes) \div w.total_bytes)]_vars

\* C28: no two entries of the quarantine log hold the same quarantine_path,
\* so every quarantined file has a quarantine path of its own and none was
\* replaced by a later one
C28_QuarantinePathsDistinct ==
    \A i, j \in 1..Len(quarantine_log) :
        i # j => quarantine_log[i].quarantine_path # quarantine_log[j].quarantine_path

\* C29: save_schedule on an existing schedule file keeps its last_run, the
\* scheduler tick is the only step that changes last_run, and a tick on a day
\* whose date last_run holds starts no scan, also after a re-save
C29_SaveKeepsLastRun ==
    /\ [][save_schedule /\ schedule_file.exists =>
                /\ schedule_file'.exists
                /\ schedule_file'.last_run = schedule_file.last_run]_vars
    /\ [][schedule_file'.last_run # schedule_file.last_run => check_schedule]_vars
    /\ [][check_schedule /\ schedule_file.last_run = now.date =>
                UNCHANGED <<scan_thread, workers>>]_vars

\* a schedule that has run today was saved again
C29_Witness ==
    /\ message_box = "Schedule"
    /\ schedule_file.exists
    /\ schedule_file.last_run = now.date

\* C30: a worker on which stop() has been called goes on to emit
\* scan_finished, whatever calls of pause(), resume() and stop() follow
C30_StopLeadsToFinished ==
    \A id \in WorkerIds :
        (isRunning(workers[id]) /\ ~workers[id].is_running)
            ~> (workers[id].pc \in {"returning", "dead", "collected"})

====
